---- MODULE Spec2Model ----
(***************************************************************************)
(* A model of podman-wsl-service: the Go proxy (cmd/podman-wsl-service,    *)
(* pkg/proxy, pkg/wslpath) and the Node proxy (index.mjs) that the         *)
(* repository holds side by side.                                          *)
(*                                                                         *)
(* Text is modelled as a sequence of tokens.  A path is tokenised at its   *)
(* slashes: "/" is one token and every name between two slashes is one     *)
(* token, so "/mnt/wsl/x" is << "/", "mnt", "/", "wsl", "/", "x" >> and    *)
(* prefix tests, trimming, splitting and joining are done on the tokens    *)
(* the way the code does them on bytes.                                    *)
(***************************************************************************)
EXTENDS Integers, Sequences, FiniteSets, TLC

VARIABLES
    sharedRoot,   \* podmanProxy.sharedRoot / const sharedRoot (index.mjs:35)
    tr,           \* one run of the path translator: input, conversion, result
    impl,         \* which proxy runs: "go" (proxy.go) or "mjs" (index.mjs)
    pc,           \* where the handler of the connection stands
    req,          \* the request as the client sent it
    wsl,          \* what `wslpath -aw` answers for each host path of the body
    buffered,     \* the handler read the whole request body before forwarding
    usReq,        \* the request written to the upstream socket
    dials,        \* the outcomes of the dials of the upstream socket, in order
    usResp,       \* the response head and body the upstream wrote
    cli,          \* what the client has received: response head and body
    cliWrote,     \* raw bytes the client wrote after the response head
    dsBuf,        \* ... of them, those waiting in the downstream socket
    upRecv,       \* raw bytes the upstream received after the request
    upWrote,      \* raw bytes the upstream wrote after its response head
    usBuf,        \* ... of them, those waiting in the upstream socket
    cliRecv,      \* raw bytes the client received after the response head
    httpByte,     \* the byte net/http's connReader.backgroundRead holds
    usReaderBuf,  \* bytes held by bufio.NewReader(usConn) (proxy.go:283)
    hijacked,     \* http.Hijacker.Hijack has detached net/http from the socket
    ident,        \* how the lookups of loggerWithProcessInfo turn out
    logger,       \* the fields of the handler's log entry
    fwd,          \* ProxyFileConn at work: its position, the sockets, the peers
    relay,        \* forwardRequest at work on a plain response, step by step
    cfg,          \* how the process was started: options and the socket path
    proc,         \* the process: startup, listening, shutdown, the socket file
    activeConnections,  \* let activeConnections (index.mjs:63)
    shutdownTimer,      \* let shutdownTimer (index.mjs:64), and the time it has run
    conns         \* the connections the listener has accepted

trVars   == << tr >>
reqVars  == << req, wsl, buffered, usReq, dials >>
respVars == << usResp, cli >>
rawVars  == << cliWrote, dsBuf, upRecv, upWrote, usBuf, cliRecv, httpByte,
               usReaderBuf, hijacked >>
lifeVars == << cfg, proc, activeConnections, shutdownTimer, conns >>
logVars  == << ident, logger >>
flowVars == << fwd, relay >>
proxyVars == << sharedRoot, pc, trVars, reqVars, respVars, rawVars, logVars, flowVars >>
vars == << impl, proxyVars, lifeVars >>

(***************************************************************************)
(* Bounds of the model.                                                    *)
(***************************************************************************)
MaxSegs == 3      \* segments of a generated host path
MaxVer == 5       \* characters after "/v" in a generated version prefix
MaxBinds == 2     \* entries of a generated HostConfig.Binds or mounts array
MaxChunks == 2    \* body chunks of a generated upstream response
MaxBytes == 2     \* raw bytes each peer writes on an upgraded connection
MaxConns == 2     \* connections the listener accepts
MaxTimeout == 2   \* the largest shutdown timeout configured, in ticks
SockCap == 1      \* bytes a socket buffers for a receiver that is not reading

(***************************************************************************)
(* strings.HasPrefix / String.prototype.startsWith                         *)
(***************************************************************************)
HasPrefix(s, p) ==
    /\ Len(s) >= Len(p)
    /\ SubSeq(s, 1, Len(p)) = p

(* strings.TrimLeft(s, "/"): every leading slash is removed *)
RECURSIVE TrimLeft(_)
TrimLeft(s) ==
    IF s # << >> /\ Head(s) = "/" THEN TrimLeft(Tail(s)) ELSE s

(* String.prototype.slice(1): exactly one leading token is removed *)
Slice1(s) ==
    IF s = << >> THEN << >> ELSE Tail(s)

(* the components of a path: the names between its slashes, empty ones dropped *)
Components(s) ==
    SelectSeq(s, LAMBDA t : t # "/")

(* the names of cs written with one slash between each two *)
RECURSIVE Slashed(_)
Slashed(cs) ==
    IF cs = << >> THEN << >>
    ELSE IF Len(cs) = 1 THEN cs
    ELSE << Head(cs), "/" >> \o Slashed(Tail(cs))

(***************************************************************************)
(* The component loop of path.Clean (Go) and of normalizeString (Node):    *)
(* "." is skipped; ".." removes the last kept name, is dropped at the root *)
(* of a rooted path and is kept at the front of an unrooted one.           *)
(***************************************************************************)
RECURSIVE CleanComps(_, _, _)
CleanComps(cs, out, rooted) ==
    IF cs = << >> THEN out
    ELSE LET c == Head(cs) IN
         IF c = "." THEN CleanComps(Tail(cs), out, rooted)
         ELSE IF c = ".." THEN
              IF out # << >> /\ out[Len(out)] # ".."
              THEN CleanComps(Tail(cs), SubSeq(out, 1, Len(out) - 1), rooted)
              ELSE IF rooted THEN CleanComps(Tail(cs), out, rooted)
              ELSE CleanComps(Tail(cs), Append(out, ".."), rooted)
         ELSE CleanComps(Tail(cs), Append(out, c), rooted)

(* path.Clean *)
Clean(s) ==
    IF s = << >> THEN << "." >>
    ELSE LET rooted == Head(s) = "/"
             out    == CleanComps(Components(s), << >>, rooted)
         IN  IF rooted THEN << "/" >> \o Slashed(out)
             ELSE IF out = << >> THEN << "." >> ELSE Slashed(out)

(* path.Join(a, b): empty elements are ignored, the rest joined by "/" and cleaned *)
GoJoin(a, b) ==
    IF a = << >> /\ b = << >> THEN << >>
    ELSE IF a = << >> THEN Clean(b)
    ELSE IF b = << >> THEN Clean(a)
    ELSE Clean(a \o << "/" >> \o b)

(* path.posix.normalize of Node: as Clean, but a trailing slash is kept *)
NodeNormalize(s) ==
    IF s = << >> THEN << "." >>
    ELSE LET rooted   == Head(s) = "/"
             trailing == s[Len(s)] = "/"
             out      == CleanComps(Components(s), << >>, rooted)
         IN  IF out = << >>
             THEN (IF rooted THEN << "/" >>
                   ELSE IF trailing THEN << ".", "/" >> ELSE << "." >>)
             ELSE (IF rooted THEN << "/" >> ELSE << >>) \o Slashed(out)
                  \o (IF trailing THEN << "/" >> ELSE << >>)

(* path.join(a, b) of Node *)
NodeJoin(a, b) ==
    IF a = << >> /\ b = << >> THEN << "." >>
    ELSE IF a = << >> THEN NodeNormalize(b)
    ELSE IF b = << >> THEN NodeNormalize(a)
    ELSE NodeNormalize(a \o << "/" >> \o b)

(***************************************************************************)
(* Fixed text of the program.                                              *)
(***************************************************************************)
SharedMountPrefix == << "/", "mnt", "/", "wsl", "/" >>
WslLocalPrefix    == << "\\\\wsl.localhost\\" >>

getSharedMountpoint(distroName) ==
    << "/", "mnt", "/", "wsl", "/", "distro-roots", "/", distroName >>

DistroNames == { "Ubuntu", "deb" }
SharedRoots == { getSharedMountpoint(d) : d \in DistroNames }

(***************************************************************************)
(* The external conversion `wslpath -aw`: a black box that fails or prints *)
(* a Windows path.  Its outcomes are an input of the model.                *)
(***************************************************************************)
WinPaths ==
    { WslLocalPrefix \o << "Ubuntu", "\\", "home" >>,
      WslLocalPrefix,
      << "C:", "\\", "Users" >>,
      << "\\\\wsl$\\", "Ubuntu", "\\", "home" >> }

ConvOutcomes ==
    { [err |-> TRUE, out |-> << >>] } \cup { [err |-> FALSE, out |-> w] : w \in WinPaths }

(* results of a translation: a path, or an error and no path *)
TOk(p, consulted)  == [ok |-> TRUE,  path |-> p,     err |-> "",  consulted |-> consulted]
TErr(e, consulted) == [ok |-> FALSE, path |-> << >>, err |-> e,   consulted |-> consulted]

(***************************************************************************)
(* podmanProxy.translateHostPath (Go).  conv is what wslpath.ToWindows     *)
(* returns for hostPath if it is called.                                   *)
(***************************************************************************)
translateHostPath_concat(root, hostPath, conv) ==
    IF HasPrefix(hostPath, SharedMountPrefix) THEN TOk(hostPath, FALSE)
    ELSE IF conv.err THEN TErr("conversion", TRUE)
    ELSE IF HasPrefix(conv.out, WslLocalPrefix)
         THEN IF ~HasPrefix(hostPath, << "/" >>) THEN TErr("BadPathFormat", TRUE)
              ELSE TOk(root \o hostPath, TRUE)
    ELSE TOk(conv.out, TRUE)

translateHostPath(root, hostPath, conv) ==
    IF HasPrefix(hostPath, SharedMountPrefix) THEN TOk(hostPath, FALSE)
    ELSE IF conv.err THEN TErr("conversion", TRUE)
    ELSE IF HasPrefix(conv.out, WslLocalPrefix)
         THEN IF ~HasPrefix(hostPath, << "/" >>) THEN TErr("BadPathFormat", TRUE)
              ELSE TOk(GoJoin(root, TrimLeft(hostPath)), TRUE)
    ELSE TOk(conv.out, TRUE)

(* translateHostPath of index.mjs; a throw is an error result *)
translateHostPath_mjs(root, hostPath, conv) ==
    IF HasPrefix(hostPath, SharedMountPrefix) THEN TOk(hostPath, FALSE)
    ELSE IF conv.err THEN TErr("conversion", TRUE)
    ELSE IF HasPrefix(conv.out, WslLocalPrefix)
         THEN IF ~HasPrefix(hostPath, << "/" >>) THEN TErr("BadPathFormat", TRUE)
              ELSE TOk(NodeJoin(root, Slice1(hostPath)), TRUE)
    ELSE TOk(conv.out, TRUE)

Translate(im, root, hostPath, conv) ==
    IF im = "go" THEN translateHostPath(root, hostPath, conv)
    ELSE translateHostPath_mjs(root, hostPath, conv)

(***************************************************************************)
(* Host paths given to the translator: absolute or relative, with up to    *)
(* MaxSegs segments, among them "..", "." and empty ones (doubled or       *)
(* trailing slashes).                                                      *)
(***************************************************************************)
SegNames == { "mnt", "wsl", "a", "..", ".", "" }

SegSeqs == UNION { [1..n -> SegNames] : n \in 0..MaxSegs }

RECURSIVE SegText(_)
SegText(segs) ==
    IF segs = << >> THEN << >>
    ELSE (IF Head(segs) = "" THEN << >> ELSE << Head(segs) >>)
         \o (IF Len(segs) > 1 THEN << "/" >> ELSE << >>)
         \o SegText(Tail(segs))

HostPaths ==
    { (IF abs THEN << "/" >> ELSE << >>) \o SegText(segs) :
          abs \in BOOLEAN, segs \in SegSeqs }

Impls == { "go", "mjs" }

(***************************************************************************)
(* Text helpers.                                                           *)
(***************************************************************************)
(* len(s): the bytes of a text *)
RECURSIVE TextLen(_)
TextLen(s) ==
    IF s = << >> THEN 0 ELSE Len(Head(s)) + TextLen(Tail(s))

IndexOf(s, t) ==
    IF \E i \in 1..Len(s) : s[i] = t
    THEN CHOOSE i \in 1..Len(s) : s[i] = t /\ \A j \in 1..(i - 1) : s[j] # t
    ELSE 0

(* strings.Split(s, sep) / String.prototype.split(sep) *)
RECURSIVE Split(_, _)
Split(s, sep) ==
    LET i == IndexOf(s, sep)
    IN  IF i = 0 THEN << s >>
        ELSE << SubSeq(s, 1, i - 1) >> \o Split(SubSeq(s, i + 1, Len(s)), sep)

(* strings.Join(parts, sep) / Array.prototype.join(sep) *)
RECURSIVE JoinWith(_, _)
JoinWith(parts, sep) ==
    IF parts = << >> THEN << >>
    ELSE IF Len(parts) = 1 THEN parts[1]
    ELSE parts[1] \o << sep >> \o JoinWith(Tail(parts), sep)

SeqsUpTo(S, n) == UNION { [1..k -> S] : k \in 0..n }

Max(S) == CHOOSE m \in S : \A k \in S : k <= m

(***************************************************************************)
(* The version prefix.  A request path is tokenised at its slashes, and    *)
(* the segment after "/v" character by character, so "/v1.41/containers/   *)
(* create" is << "/", "v", "1", ".", "4", "1", "/", "containers", "/",     *)
(* "create" >>.                                                            *)
(*                                                                         *)
(* VersionStep is the automaton of the pattern, one token at a time:       *)
(*   "go"    ^/v\d+.(?:\d\.?)+/       proxy.go:60  (the dot is unescaped)  *)
(*   "mjs"   ^\/v\d+\.(?:\d\.?)+\/    index.mjs:306                        *)
(*   "doc"   /vMAJOR.MINOR(.PATCH)?/  the form the specification names     *)
(* State 9 is acceptance.                                                  *)
(***************************************************************************)
IsDigit(t) == t \in { "0", "1", "2", "3", "4", "5", "6", "7", "8", "9" }
IsChar(t)  == Len(t) = 1

VersionStep(kind, q, t) ==
    CASE q = 0 -> IF t = "/" THEN {1} ELSE {}
      [] q = 1 -> IF t = "v" THEN {2} ELSE {}
      [] q = 2 -> IF IsDigit(t) THEN {3} ELSE {}
      [] q = 3 -> (IF IsDigit(t) THEN {3} ELSE {})
                  \cup (IF t = "." \/ (kind = "go" /\ IsChar(t)) THEN {4} ELSE {})
      [] q = 4 -> IF IsDigit(t) THEN {5} ELSE {}
      [] q = 5 -> IF kind = "doc"
                  THEN (IF IsDigit(t) THEN {5} ELSE IF t = "." THEN {7}
                        ELSE IF t = "/" THEN {9} ELSE {})
                  ELSE (IF IsDigit(t) THEN {5} ELSE IF t = "." THEN {6}
                        ELSE IF t = "/" THEN {9} ELSE {})
      [] q = 6 -> IF IsDigit(t) THEN {5} ELSE IF t = "/" THEN {9} ELSE {}
      [] q = 7 -> IF IsDigit(t) THEN {8} ELSE {}
      [] q = 8 -> IF IsDigit(t) THEN {8} ELSE IF t = "/" THEN {9} ELSE {}
      [] OTHER -> {}

RECURSIVE StatesAfter(_, _, _)
StatesAfter(kind, s, i) ==
    IF i = 0 THEN {0}
    ELSE UNION { VersionStep(kind, q, s[i]) : q \in StatesAfter(kind, s, i - 1) \ {9} }

MatchEnds(kind, s) == { i \in 1..Len(s) : 9 \in StatesAfter(kind, s, i) }

(* versionRegex.ReplaceAllString(path, "/") / pathname.replace(re, '/');
   the quantifiers are greedy, so the longest match is the one replaced *)
StripVersion(kind, s) ==
    IF MatchEnds(kind, s) = {} THEN s
    ELSE << "/" >> \o SubSeq(s, Max(MatchEnds(kind, s)) + 1, Len(s))

ContainersCreate == << "/", "containers", "/", "create" >>
LibpodCreate     == << "/", "libpod", "/", "containers", "/", "create" >>

(***************************************************************************)
(* Headers: a sequence of << name, value >> pairs.                         *)
(***************************************************************************)
(* textproto.CanonicalMIMEHeaderKey, on the names the model sends *)
CanonicalMIMEHeaderKey(n) ==
    CASE n = "x-request-id" -> "X-Request-Id"
      [] n = "x-odd-CASE"   -> "X-Odd-Case"
      [] n = "content-type" -> "Content-Type"
      [] OTHER -> n

(* the lower-cased names of node's IncomingMessage.headers *)
LowerName(n) ==
    CASE n = "Content-Type" -> "content-type"
      [] n = "Connection"   -> "connection"
      [] n = "Upgrade"      -> "upgrade"
      [] n = "Set-Cookie"   -> "set-cookie"
      [] n = "Api-Version"  -> "api-version"
      [] n = "x-odd-CASE"   -> "x-odd-case"
      [] OTHER -> n

(* strings.ToLower, on the values the model sends *)
ToLower(v) ==
    CASE v = "Upgrade" -> "upgrade"
      [] v = "keep-alive, Upgrade" -> "keep-alive, upgrade"
      [] OTHER -> v

(* the comma-separated tokens of a Connection value, in lower case, on the
   values the model sends *)
ConnectionTokens(v) ==
    CASE v = "" -> { }
      [] v = "Upgrade" -> { "upgrade" }
      [] v = "keep-alive, Upgrade" -> { "keep-alive", "upgrade" }
      [] OTHER -> { v }

(* http.Header as net/http fills it: every name canonical *)
CanonHeaders(h) == [i \in 1..Len(h) |-> << CanonicalMIMEHeaderKey(h[i][1]), h[i][2] >>]

(* Header.Get(key): the first value of key, "" if there is none *)
HeaderGet(h, key) ==
    LET is == { i \in 1..Len(h) : h[i][1] = key }
    IN  IF is = {} THEN "" ELSE h[CHOOSE i \in is : \A j \in is : i <= j][2]

(* Header.Set(key, v): key's values are replaced by the single value v *)
HeaderSet(h, key, v) ==
    SelectSeq(h, LAMBDA p : p[1] # key) \o << << key, v >> >>

(* how often the pair p occurs in h *)
Count(h, p) == Cardinality({ i \in 1..Len(h) : h[i] = p })

(* the same name/value pairs, each as often, in any order *)
SamePairs(a, b) ==
    /\ Len(a) = Len(b)
    /\ \A i \in 1..Len(a) : Count(a, a[i]) = Count(b, a[i])

(***************************************************************************)
(* Request bodies.  A JSON body is modelled decoded: the fields the        *)
(* rewriters read, and ws, whether its bytes differ from what the encoder  *)
(* would write for the same value (white space, key order, escapes).       *)
(***************************************************************************)
Body(kind, ws, hc, hb, binds, hm, mounts) ==
    [kind |-> kind, ws |-> ws, hasHostConfig |-> hc, hasBinds |-> hb,
     bindsNull |-> FALSE, binds |-> binds, hasMounts |-> hm, mounts |-> mounts]

NoBody     == Body("none",    FALSE, FALSE, FALSE, << >>, FALSE, << >>)
OpaqueBody == Body("opaque",  FALSE, FALSE, FALSE, << >>, FALSE, << >>)

P1 == << "/", "home", "/", "user", "/", "data" >>
P2 == << "/", "mnt", "/", "wsl", "/", "x" >>
P3 == << "myvol" >>

StrBind(text) == [str |-> TRUE,  text |-> text, val |-> 0]
NonStr(v)     == [str |-> FALSE, text |-> << >>, val |-> v]

BindEntries ==
    { StrBind(P1 \o << ":", "/", "data", ":", "ro" >>),
      StrBind(P2 \o << ":", "/", "y" >>),
      StrBind(P3 \o << ":", "/", "z" >>),
      NonStr(7) }

Mounts ==
    { [type |-> "bind",   source |-> P1],
      [type |-> "bind",   source |-> P2],
      [type |-> "volume", source |-> P3] }

DockerBodies ==
    { Body("docker", ws, TRUE, TRUE, b, FALSE, << >>) :
          ws \in BOOLEAN, b \in SeqsUpTo(BindEntries, MaxBinds) }
    \cup { Body("docker", FALSE, TRUE, FALSE, << >>, FALSE, << >>),
           Body("docker", FALSE, FALSE, FALSE, << >>, FALSE, << >>),
           Body("garbage", FALSE, FALSE, FALSE, << >>, FALSE, << >>) }

LibpodBodies ==
    { Body("libpod", ws, FALSE, FALSE, << >>, TRUE, m) :
          ws \in BOOLEAN, m \in SeqsUpTo(Mounts, MaxBinds) }
    \cup { Body("libpod", FALSE, FALSE, FALSE, << >>, FALSE, << >>),
           Body("garbage", FALSE, FALSE, FALSE, << >>, FALSE, << >>) }

RECURSIVE BindsLen(_)
BindsLen(bs) ==
    IF bs = << >> THEN 0
    ELSE (IF Head(bs).str THEN TextLen(Head(bs).text) + 2 ELSE 1) + 1
         + BindsLen(Tail(bs))

RECURSIVE MountsLen(_)
MountsLen(ms) ==
    IF ms = << >> THEN 0
    ELSE Len(Head(ms).type) + TextLen(Head(ms).source) + 24 + MountsLen(Tail(ms))

(* len(body): the bytes of a body on the wire *)
ByteLen(b) ==
    CASE b.kind = "none" -> 0
      [] b.kind \in { "opaque", "garbage" } -> 5
      [] OTHER ->
           2 + (IF b.ws THEN 1 ELSE 0)
           + (IF b.hasHostConfig THEN 15 ELSE 0)
           + (IF b.hasBinds THEN 8 + (IF b.bindsNull THEN 4 ELSE 2 + BindsLen(b.binds))
              ELSE 0)
           + (IF b.hasMounts THEN 11 + MountsLen(b.mounts) ELSE 0)

(* json.Marshal / JSON.stringify: the encoder's own bytes for the value *)
Marshal(b) == [b EXCEPT !.ws = FALSE]

(***************************************************************************)
(* wslpath answers for the host paths of a body.                           *)
(***************************************************************************)
ConvFail    == [err |-> TRUE,  out |-> << >>]
ConvLocal   == [err |-> FALSE, out |-> WslLocalPrefix \o << "Ubuntu", "\\", "home" >>]
ConvForeign == [err |-> FALSE, out |-> << "C:", "\\", "Users" >>]

Oracles == [{ P1, P3 } -> { ConvFail, ConvLocal, ConvForeign }]
DefaultOracle == [p \in { P1, P3 } |-> ConvLocal]

(* wslpath.ToWindows(p) / wslPathToWindowsPath(p) *)
ToWindows(w, p) == IF p \in DOMAIN w THEN w[p] ELSE ConvFail

(***************************************************************************)
(* The body rewriters.  Each returns err (the rewrite failed) and the      *)
(* body, mutated.                                                          *)
(***************************************************************************)
(* the loop of podmanProxy.mangleDockerVolumes over binds (proxy.go:178) *)
RECURSIVE mangleBinds(_, _, _, _)
mangleBinds(root, binds, w, newBinds) ==
    IF binds = << >> THEN [err |-> FALSE, binds |-> newBinds]
    ELSE LET bind == Head(binds) IN
         IF bind.str
         THEN LET parts    == Split(bind.text, ":")
                  hostPath == parts[1]
                  t        == translateHostPath(root, hostPath, ToWindows(w, hostPath))
              IN  IF ~t.ok THEN [err |-> TRUE, binds |-> << >>]
                  ELSE mangleBinds(root, Tail(binds), w,
                         Append(newBinds,
                           StrBind(JoinWith([parts EXCEPT ![1] = t.path], ":"))))
         ELSE mangleBinds(root, Tail(binds), w, Append(newBinds, bind))

(* podmanProxy.mangleDockerVolumes: newBinds starts as a nil slice, and a nil
   slice is what is stored (and encoded as null) when binds is empty *)
mangleDockerVolumes(root, body, w) ==
    IF ~body.hasHostConfig THEN [err |-> FALSE, body |-> body]
    ELSE IF ~body.hasBinds THEN [err |-> FALSE, body |-> body]
    ELSE LET r == mangleBinds(root, body.binds, w, << >>)
         IN  IF r.err THEN [err |-> TRUE, body |-> body]
             ELSE [err |-> FALSE,
                   body |-> [body EXCEPT !.binds = r.binds,
                                         !.bindsNull = (r.binds = << >>)]]

(* body["mounts"].([]map[string]string) (proxy.go:148): ServeHTTP decodes the
   body into map[string]interface{}, where encoding/json stores every array
   as []interface{}, so the assertion fails for every decoded body *)
mountsAssertion(body) == FALSE

(* the loop of podmanProxy.mangleLibpodVolumes over mounts (proxy.go:153) *)
RECURSIVE mangleMounts(_, _, _, _)
mangleMounts(root, mounts, w, done) ==
    IF mounts = << >> THEN [err |-> FALSE, mounts |-> done]
    ELSE LET mount == Head(mounts) IN
         IF mount.type # "bind"
         THEN mangleMounts(root, Tail(mounts), w, Append(done, mount))
         ELSE LET t == translateHostPath(root, mount.source,
                                         ToWindows(w, mount.source))
              IN  IF ~t.ok THEN [err |-> TRUE, mounts |-> << >>]
                  ELSE mangleMounts(root, Tail(mounts), w,
                         Append(done, [mount EXCEPT !.source = t.path]))

(* podmanProxy.mangleLibpodVolumes *)
mangleLibpodVolumes(root, body, w) ==
    IF ~(body.hasMounts /\ mountsAssertion(body)) THEN [err |-> FALSE, body |-> body]
    ELSE LET r == mangleMounts(root, body.mounts, w, << >>)
         IN  IF r.err THEN [err |-> TRUE, body |-> body]
             ELSE [err |-> FALSE, body |-> [body EXCEPT !.mounts = r.mounts]]

(* the loop of patchVolumesDocker (index.mjs:188): mounts[i].split(':')
   throws a TypeError on an entry that is not a string *)
RECURSIVE patchBinds(_, _, _, _)
patchBinds(root, binds, w, done) ==
    IF binds = << >> THEN [err |-> FALSE, binds |-> done]
    ELSE LET bind == Head(binds) IN
         IF ~bind.str THEN [err |-> TRUE, binds |-> << >>]
         ELSE LET mount    == Split(bind.text, ":")
                  hostPath == mount[1]
                  t        == translateHostPath_mjs(root, hostPath,
                                                    ToWindows(w, hostPath))
              IN  IF ~t.ok THEN [err |-> TRUE, binds |-> << >>]
                  ELSE patchBinds(root, Tail(binds), w,
                         Append(done,
                           StrBind(JoinWith([mount EXCEPT ![1] = t.path], ":"))))

(* patchVolumesDocker (index.mjs) *)
patchVolumesDocker(root, body, w) ==
    IF ~(body.hasHostConfig /\ body.hasBinds) THEN [err |-> FALSE, body |-> body]
    ELSE LET r == patchBinds(root, body.binds, w, << >>)
         IN  IF r.err THEN [err |-> TRUE, body |-> body]
             ELSE [err |-> FALSE, body |-> [body EXCEPT !.binds = r.binds]]

(* the loop of patchVolumesLibpod (index.mjs:170): every element's source
   is translated, whatever its type *)
RECURSIVE patchMounts(_, _, _, _)
patchMounts(root, mounts, w, done) ==
    IF mounts = << >> THEN [err |-> FALSE, mounts |-> done]
    ELSE LET mount == Head(mounts)
             t     == translateHostPath_mjs(root, mount.source,
                                            ToWindows(w, mount.source))
         IN  IF ~t.ok THEN [err |-> TRUE, mounts |-> << >>]
             ELSE patchMounts(root, Tail(mounts), w,
                    Append(done, [mount EXCEPT !.source = t.path]))

(* patchVolumesLibpod (index.mjs) *)
patchVolumesLibpod(root, body, w) ==
    IF ~body.hasMounts THEN [err |-> FALSE, body |-> body]
    ELSE LET r == patchMounts(root, body.mounts, w, << >>)
         IN  IF r.err THEN [err |-> TRUE, body |-> body]
             ELSE [err |-> FALSE, body |-> [body EXCEPT !.mounts = r.mounts]]

(***************************************************************************)
(* What a handler decides for a request: answer it with an error status,   *)
(* or forward it with a body.                                              *)
(***************************************************************************)
Respond(status, buf) ==
    [forward |-> FALSE, status |-> status, body |-> NoBody, rewritten |-> FALSE,
     buffered |-> buf]
Forward(body, rewritten) ==
    [forward |-> TRUE, status |-> 0, body |-> body, rewritten |-> rewritten,
     buffered |-> rewritten]

(* loggerWithProcessInfo (proxy.go:196-229): whether it returns to its
   caller, and the fields of the entry it returns *)
loggerWithProcessInfo_strict(peer, oldLogger) ==
    [returned |-> peer.file /\ peer.cred /\ peer.user /\ peer.program,
     logger |-> oldLogger]

loggerWithProcessInfo(peer, oldLogger) ==
    [returned |-> TRUE,
     logger |-> IF ~peer.file \/ ~peer.cred THEN oldLogger
                ELSE oldLogger \cup { "pid", "user" }
                     \cup (IF peer.program THEN { "program" } ELSE { })]

(* the log entry of ServeHTTP when it calls forwardRequest or answers
   (proxy.go:374-385) *)
ServeHTTP_logger(r, peer) ==
    LET l == loggerWithProcessInfo(peer, { "method", "path", "changed" })
    IN  [l EXCEPT !.logger =
            @ \cup (IF HeaderGet(CanonHeaders(r.hdrs), "Content-Type") # ""
                    THEN { "content-type" } ELSE { })]

IsJSONObject(body) == body.kind \in { "docker", "libpod" }

(* podmanProxy.ServeHTTP up to its call of forwardRequest *)
ServeHTTP_decide(root, r, w) ==
    LET path        == StripVersion("go", r.path)
        contentType == HeaderGet(CanonHeaders(r.hdrs), "Content-Type")
    IN  IF r.method # "POST" \/ (path # ContainersCreate /\ path # LibpodCreate)
        THEN Forward(r.body, FALSE)
        ELSE IF contentType # "application/json" /\ contentType # ""
        THEN Forward(r.body, FALSE)
        ELSE IF ~IsJSONObject(r.body) THEN Respond(400, TRUE)
        ELSE LET m == IF HasPrefix(path, << "/", "libpod" >>)
                      THEN mangleLibpodVolumes(root, r.body, w)
                      ELSE mangleDockerVolumes(root, r.body, w)
             IN  IF m.err THEN Respond(400, TRUE)
                 ELSE Forward(Marshal(m.body), TRUE)

(* the request listener of index.mjs up to its call of forwardRequest *)
requestListener_decide(root, r, w) ==
    LET pathWithoutVersion == StripVersion("mjs", r.path)
    IN  IF r.method = "POST"
           /\ (pathWithoutVersion = ContainersCreate
               \/ pathWithoutVersion = LibpodCreate)
        THEN IF ~IsJSONObject(r.body) THEN Respond(500, TRUE)
             ELSE LET m == IF pathWithoutVersion = ContainersCreate
                           THEN patchVolumesDocker(root, r.body, w)
                           ELSE patchVolumesLibpod(root, r.body, w)
                  IN  IF m.err THEN Respond(500, TRUE)
                      ELSE Forward(Marshal(m.body), TRUE)
        ELSE Forward(r.body, FALSE)

(***************************************************************************)
(* The request as written upstream.                                        *)
(***************************************************************************)
NoUsReq ==
    [written |-> FALSE, rewritten |-> FALSE, method |-> "", path |-> << >>,
     hdrs |-> << >>, cl |-> -1, chunked |-> FALSE, body |-> NoBody]

(* the length the client declared: Content-Length, or none when chunked *)
DeclaredLen(r) == IF r.chunked THEN -1 ELSE ByteLen(r.body)

(* forwardRequest (proxy.go:243-255, 276): the clone keeps the canonical
   header map and TransferEncoding of the server request; Connection is set
   to close unless it reads "upgrade"; Request.Write frames the body chunked
   if TransferEncoding says so and by ContentLength otherwise *)
forwardRequest_write(r, d) ==
    LET h0 == CanonHeaders(r.hdrs)
        h  == IF ToLower(HeaderGet(h0, "Connection")) # "upgrade"
              THEN HeaderSet(h0, "Connection", "close") ELSE h0
    IN  [written |-> TRUE, rewritten |-> d.rewritten, method |-> r.method,
         path |-> r.path, hdrs |-> h,
         cl |-> IF r.chunked THEN -1
                ELSE IF d.rewritten THEN ByteLen(d.body) ELSE DeclaredLen(r),
         chunked |-> r.chunked, body |-> d.body]

(* node's IncomingMessage.headers: names in lower case *)
LowerHeaders(h) == [i \in 1..Len(h) |-> << LowerName(h[i][1]), h[i][2] >>]

(* forwardRequest of index.mjs (203-214, 268-276): the headers object is a
   copy of req.headers, transfer-encoding included, and Content-Length is
   set over it when the body was rewritten *)
forwardRequest_mjs_write(r, d) ==
    [written |-> TRUE, rewritten |-> d.rewritten, method |-> r.method,
     path |-> r.path, hdrs |-> LowerHeaders(r.hdrs),
     cl |-> IF d.rewritten THEN ByteLen(d.body) ELSE DeclaredLen(r),
     chunked |-> r.chunked, body |-> d.body]

(* the upgrade listener of index.mjs (351-356): request line and rawHeaders
   are written as they came *)
upgrade_mjs_write(r) ==
    [written |-> TRUE, rewritten |-> FALSE, method |-> r.method, path |-> r.path,
     hdrs |-> r.hdrs, cl |-> DeclaredLen(r), chunked |-> r.chunked,
     body |-> r.body]

(* the request asks for a protocol upgrade: node's parser finds the upgrade
   token in Connection and an Upgrade header, and the server emits 'upgrade'
   for it instead of 'request' *)
WantsUpgrade(r) ==
    LET h == CanonHeaders(r.hdrs)
    IN  /\ "upgrade" \in ConnectionTokens(HeaderGet(h, "Connection"))
        /\ HeaderGet(h, "Upgrade") # ""

(***************************************************************************)
(* The requests a client sends and the responses the upstream gives.       *)
(***************************************************************************)
Request(method, path, hdrs, chunked, body) ==
    [method |-> method, path |-> path, hdrs |-> hdrs, chunked |-> chunked,
     body |-> body]

NoReq  == Request("", << >>, << >>, FALSE, NoBody)
NoResp == [status |-> 0, hdrs |-> << >>, chunks |-> << >>, msg |-> ""]

VerChars == { "1", ".", "x" }

(* "", and "/v" followed by up to MaxVer characters *)
VersionPrefixes ==
    { << >> } \cup { << "/", "v" >> \o s : s \in SeqsUpTo(VerChars, MaxVer) }

ContainersJSON   == << "/", "containers", "/", "json" >>
ContainersAttach == << "/", "containers", "/", "c", "/", "attach" >>
V11 == << "/", "v", "1", ".", "1" >>

ContentType(ct) == IF ct = "" THEN << >> ELSE << << "Content-Type", ct >> >>

(* one bind under the distribution's own tree *)
OneBind ==
    Body("docker", FALSE, TRUE, TRUE,
         << StrBind(P1 \o << ":", "/", "data", ":", "ro" >>) >>, FALSE, << >>)

(* every version prefix before the three endpoints, and the creation
   endpoints under another method or content type *)
RoutingRequests ==
    { Request("POST", v \o rest, << >>, FALSE, OneBind) :
          v \in VersionPrefixes,
          rest \in { ContainersCreate, LibpodCreate, ContainersJSON } }
    \cup { Request(m, V11 \o rest, ContentType("text/plain"), FALSE, OneBind) :
          m \in { "GET", "POST" }, rest \in { ContainersCreate, LibpodCreate } }

(* every body on its creation endpoint, with either framing *)
CreateRequests ==
    { Request("POST", V11 \o ContainersCreate, ContentType(ct), ch, b) :
          ct \in { "", "application/json" }, ch \in BOOLEAN, b \in DockerBodies }
    \cup { Request("POST", V11 \o LibpodCreate, ContentType(ct), ch, b) :
          ct \in { "", "application/json" }, ch \in BOOLEAN, b \in LibpodBodies }

ReqHeaderSets ==
    { << >>,
      << << "x-odd-CASE", "1" >> >>,
      << << "Connection", "keep-alive" >> >>,
      << << "x-request-id", "a" >>, << "Connection", "close" >> >> }

UpgradeHeaders == << << "Connection", "Upgrade" >>, << "Upgrade", "tcp" >> >>

(* requests the proxy only relays *)
RelayRequests ==
    { Request("GET", v \o ContainersJSON, h, FALSE, NoBody) :
          v \in { << >>, V11 }, h \in ReqHeaderSets }
    \cup { Request("POST", ContainersJSON, << >>, ch, OpaqueBody) : ch \in BOOLEAN }

(* the upgrade token listed with another one *)
UpgradeListHeaders ==
    << << "Connection", "keep-alive, Upgrade" >>, << "Upgrade", "tcp" >> >>

UpgradeRequests ==
    { Request("POST", ContainersAttach, h, FALSE, NoBody) :
          h \in { UpgradeHeaders, UpgradeListHeaders } }

RespHeaderSets ==
    { << >>,
      << << "x-odd-CASE", "v" >> >>,
      << << "Set-Cookie", "a" >>, << "Set-Cookie", "b" >> >>,
      << << "Api-Version", "1.41" >>, << "Connection", "close" >> >> }

(* the chunks 1..n of a response body *)
Chunks(n) == [i \in 1..n |-> i]

PlainResponse == [status |-> 200, hdrs |-> << >>, chunks |-> Chunks(1), msg |-> ""]

Responses ==
    { [status |-> s, hdrs |-> h, chunks |-> Chunks(n), msg |-> ""] :
          s \in { 200, 404 }, h \in RespHeaderSets, n \in 0..MaxChunks }

SwitchingProtocols ==
    [status |-> 101, hdrs |-> UpgradeHeaders, chunks |-> << >>, msg |-> ""]

(* what the upstream may answer to a request it was sent: the variety of
   heads and bodies is explored on the relayed requests *)
ResponsesTo(r) ==
    IF WantsUpgrade(r) THEN { SwitchingProtocols, PlainResponse }
    ELSE IF r \in RelayRequests THEN Responses
    ELSE { PlainResponse }

(* an answer of the proxy's own: http.Error(w, err.Error(), status) /
   writeError(res, status, message, err) *)
ErrorReply(status, msg) ==
    [status |-> status, hdrs |-> << >>, chunks |-> << >>, msg |-> msg]

NoResult == [ok |-> FALSE, path |-> << >>, err |-> "none", consulted |-> FALSE]

NoTr ==
    [phase |-> "idle", impl |-> "go", hostPath |-> << >>,
     conv |-> [err |-> TRUE, out |-> << >>], res |-> NoResult,
     conv2 |-> [err |-> TRUE, out |-> << >>], res2 |-> NoResult]

(* how the peer of a connection resolves: conn.File(), GetsockoptUcred,
   user.LookupId and ps.FindProcess each succeed or fail; a lookup is made
   only if those before it succeeded *)
Peer(file, cred, user, program) ==
    [file |-> file, cred |-> cred, user |-> user, program |-> program]

PeerOutcomes ==
    { Peer(FALSE, FALSE, FALSE, FALSE), Peer(TRUE, FALSE, FALSE, FALSE) }
    \cup { Peer(TRUE, TRUE, u, p) : u \in BOOLEAN, p \in BOOLEAN }

Resolved == Peer(TRUE, TRUE, TRUE, TRUE)

(* no connection accepted yet *)
Idle ==
    /\ ident = Resolved
    /\ logger = { }
    /\ pc = "idle"
    /\ req = NoReq
    /\ wsl = DefaultOracle
    /\ buffered = FALSE
    /\ usReq = NoUsReq
    /\ dials = << >>
    /\ usResp = NoResp
    /\ cli = NoResp
    /\ cliWrote = << >> /\ dsBuf = << >> /\ upRecv = << >>
    /\ upWrote = << >> /\ usBuf = << >> /\ cliRecv = << >>
    /\ httpByte = << >> /\ usReaderBuf = << >>
    /\ hijacked = FALSE

(***************************************************************************)
(* The process: its options, its listening socket, the connections it has  *)
(* accepted, and (index.mjs) the counter and the idle timer.               *)
(***************************************************************************)
Conns == 1..MaxConns

(* shutdownTimeout (index.mjs:33), in ticks; activated: systemdSocket()
   returned a descriptor (index.mjs:37); stale: a file exists at the
   downstream path when the process starts *)
Configs ==
    [shutdownTimeout : -1..MaxTimeout, activated : BOOLEAN, stale : BOOLEAN]

DefaultConfig == [shutdownTimeout |-> -1, activated |-> FALSE, stale |-> FALSE]

(* the process before main / the module body has run *)
NotStarted(c) ==
    [state |-> "init", exitBy |-> "none", probe |-> "none", ret |-> "none",
     listened |-> FALSE,
     file |-> IF c.stale THEN "stale" ELSE "absent", mode |-> "none",
     unlinked |-> FALSE]

NoTimer == [armed |-> FALSE, elapsed |-> 0]
NoConn  ==
    [state |-> "none", kind |-> "none", incs |-> 0, decs |-> 0,
     failed |-> "none", files |-> 0, fd |-> 0]

(* a process that started with the default options and is listening *)
Listening ==
    /\ cfg = DefaultConfig
    /\ proc = [NotStarted(DefaultConfig) EXCEPT
                  !.state = "listening", !.probe = "ok", !.ret = "nil",
                  !.listened = TRUE, !.file = "own", !.mode = "0660"]
    /\ activeConnections = 0
    /\ shutdownTimer = NoTimer
    /\ conns = [c \in Conns |-> NoConn]

(***************************************************************************)
(* One connection in the hands of forwardRequest, step by step.            *)
(***************************************************************************)
(* a peer of the upgraded connection: whether it has closed its end, and
   whether it writes all it has to say before it reads *)
Peer0(writeFirst) == [closed |-> FALSE, writeFirst |-> writeFirst]

(* ProxyFileConn not yet called *)
NoFwd ==
    [pos |-> "none", err |-> "none", ready |-> { }, inHand |-> << >>,
     finalized |-> FALSE, toUp |-> << >>, toCli |-> << >>,
     usConn |-> "open", dsConn |-> "open",
     up |-> Peer0(FALSE), client |-> Peer0(FALSE)]

(* the response head among the items a client receives; body chunks are
   numbered from 1 *)
HeadItem == 0

(* forwardRequest not yet called *)
NoRelay ==
    [pos |-> "none", kind |-> "plain", usConn |-> "none", usDup |-> FALSE,
     dialled |-> 0, reused |-> FALSE, reqRead |-> FALSE, keepAlive |-> FALSE,
     pooled |-> FALSE, client |-> "open", abortedEmitted |-> FALSE,
     closeHeard |-> FALSE, head |-> FALSE, toSend |-> 0, left |-> << >>,
     upEnded |-> FALSE, nread |-> 0, inHand |-> << >>, wbuf |-> << >>,
     got |-> << >>, err |-> "none"]

Quiet == fwd = NoFwd /\ relay = NoRelay

(***************************************************************************)
(* The translator as a state machine: an input is drawn, one               *)
(* implementation translates it, and the result is translated again.       *)
(***************************************************************************)
InitT ==
    /\ sharedRoot \in SharedRoots
    /\ impl = "go"
    /\ Idle
    /\ Listening
    /\ Quiet
    /\ \E p \in HostPaths : tr = [NoTr EXCEPT !.phase = "input", !.hostPath = p]

TranslateOnce ==
    /\ tr.phase = "input"
    /\ \E im \in Impls, c \in ConvOutcomes :
         tr' = [tr EXCEPT !.phase = "once", !.impl = im, !.conv = c,
                          !.res = Translate(im, sharedRoot, tr.hostPath, c)]
    /\ UNCHANGED << lifeVars, logVars, flowVars, sharedRoot, impl, pc, reqVars, respVars, rawVars >>

TranslateAgain ==
    /\ tr.phase = "once"
    /\ tr.res.ok
    /\ \E c \in ConvOutcomes :
         tr' = [tr EXCEPT !.phase = "twice", !.conv2 = c,
                          !.res2 = Translate(tr.impl, sharedRoot, tr.res.path, c)]
    /\ UNCHANGED << lifeVars, logVars, flowVars, sharedRoot, impl, pc, reqVars, respVars, rawVars >>

NextT == TranslateOnce \/ TranslateAgain

SpecT == InitT /\ [][NextT]_vars

(***************************************************************************)
(* The proxy serving one connection.                                       *)
(***************************************************************************)
Init ==
    /\ sharedRoot \in SharedRoots
    /\ impl \in Impls
    /\ tr = NoTr
    /\ Idle
    /\ Listening
    /\ Quiet

(* the client sends a request; wslpath will answer as w *)
Receive ==
    /\ pc = "idle"
    /\ \/ /\ req' \in RoutingRequests \cup RelayRequests \cup UpgradeRequests
          /\ wsl' = DefaultOracle
       \/ /\ req' \in CreateRequests
          /\ wsl' \in Oracles
    /\ ident' \in (IF impl = "go" THEN PeerOutcomes ELSE { Resolved })
    /\ pc' = "received"
    /\ UNCHANGED << lifeVars, flowVars, logger, sharedRoot, impl, trVars, buffered, usReq, dials, respVars, rawVars >>

(* podmanProxy.ServeHTTP and the forwardRequest it calls, up to the read of
   the upstream's response; the dial of the upstream socket may fail *)
ServeHTTP ==
    /\ impl = "go"
    /\ pc = "received"
    /\ LET d == ServeHTTP_decide(sharedRoot, req, wsl)
           l == ServeHTTP_logger(req, ident)
       IN  /\ logger' = l.logger
           /\ IF ~l.returned
              THEN /\ pc' = "done"
                   /\ UNCHANGED << buffered, cli, usReq, dials >>
              ELSE /\ buffered' = d.buffered
                   /\ IF ~d.forward
                      THEN /\ cli' = ErrorReply(d.status, "err.Error()")
                           /\ pc' = "done"
                           /\ UNCHANGED << usReq, dials >>
                      ELSE \/ /\ dials' = Append(dials, "ok")
                              /\ usReq' = forwardRequest_write(req, d)
                              /\ pc' = "sent"
                              /\ UNCHANGED cli
                           \/ /\ dials' = Append(dials, "failed")
                              /\ cli' = ErrorReply(502, "err.Error()")
                              /\ pc' = "done"
                              /\ UNCHANGED usReq
    /\ UNCHANGED << lifeVars, flowVars, ident, sharedRoot, impl, trVars, req, wsl, usResp, rawVars >>

(* the request listener of index.mjs and the forwardRequest it calls; a
   failed connect reaches upstreamReq's 'error' listener *)
requestListener ==
    /\ impl = "mjs"
    /\ pc = "received"
    /\ ~WantsUpgrade(req)
    /\ LET d == requestListener_decide(sharedRoot, req, wsl)
       IN  /\ buffered' = d.buffered
           /\ IF ~d.forward
              THEN /\ cli' = ErrorReply(d.status, "Error processing request body")
                   /\ pc' = "done"
                   /\ UNCHANGED << usReq, dials >>
              ELSE \/ /\ dials' = Append(dials, "ok")
                      /\ usReq' = forwardRequest_mjs_write(req, d)
                      /\ pc' = "sent"
                      /\ UNCHANGED cli
                   \/ /\ dials' = Append(dials, "failed")
                      /\ cli' = ErrorReply(500, "Error proxying request")
                      /\ pc' = "done"
                      /\ UNCHANGED usReq
    /\ UNCHANGED << lifeVars, logVars, flowVars, sharedRoot, impl, trVars, req, wsl, usResp, rawVars >>

(* server.on('upgrade') of index.mjs: the head is written upstream and the
   two sockets are piped; on a failed connect the socket is destroyed *)
upgradeListener ==
    /\ impl = "mjs"
    /\ pc = "received"
    /\ WantsUpgrade(req)
    /\ \/ /\ dials' = Append(dials, "ok")
          /\ usReq' = upgrade_mjs_write(req)
          /\ pc' = "forward"
       \/ /\ dials' = Append(dials, "failed")
          /\ pc' = "done"
          /\ UNCHANGED usReq
    /\ UNCHANGED << lifeVars, logVars, flowVars, sharedRoot, impl, trVars, req, wsl, buffered, respVars, rawVars >>

(* the upstream answers the request it was sent *)
UpstreamRespond ==
    /\ pc \in { "sent", "forward" }
    /\ usReq.written
    /\ usResp = NoResp
    /\ usResp' \in ResponsesTo(req)
    /\ UNCHANGED << lifeVars, logVars, flowVars, sharedRoot, impl, pc, trVars, reqVars, cli, rawVars >>

(* forwardRequest (proxy.go:283-311) on a response that is no protocol
   switch: header map, status and body are copied to the client *)
forwardRequest_relay ==
    /\ impl = "go"
    /\ pc = "sent"
    /\ usResp # NoResp
    /\ usResp.status # 101
    /\ LET h0 == CanonHeaders(usResp.hdrs)
           h  == IF ToLower(HeaderGet(h0, "Connection")) # "upgrade"
                 THEN HeaderSet(h0, "Connection", "close") ELSE h0
       IN  cli' = [usResp EXCEPT !.hdrs = h]
    /\ pc' = "done"
    /\ UNCHANGED << lifeVars, logVars, flowVars, sharedRoot, impl, trVars, reqVars, usResp, rawVars >>

(* forwardRequest (proxy.go:283-343) on a protocol switch: the bufio reader
   that parsed the head holds whatever the upstream had written behind it
   when the read returned; Flush writes the header net/http has, which is an
   implicit 200 with an empty header map; the connection goes to
   ProxyFileConn *)
forwardRequest_takeover ==
    /\ impl = "go"
    /\ pc = "sent"
    /\ usResp.status = 101
    /\ \E k \in 0..Len(usBuf) :
         /\ usReaderBuf' = SubSeq(usBuf, 1, k)
         /\ usBuf' = SubSeq(usBuf, k + 1, Len(usBuf))
    /\ cli' = [status |-> 200, hdrs |-> << >>, chunks |-> << >>, msg |-> ""]
    /\ pc' = "forward"
    /\ UNCHANGED << lifeVars, logVars, flowVars, sharedRoot, impl, trVars, reqVars, usResp, cliWrote, dsBuf,
                    upRecv, upWrote, cliRecv, httpByte, hijacked >>

(* res.setHeader in turn for each raw header: a later header of the same
   name, compared without case, replaces the earlier one *)
setHeaders(h) ==
    LET kept == { i \in 1..Len(h) :
                    \A j \in (i + 1)..Len(h) : LowerName(h[j][1]) # LowerName(h[i][1]) }
        F[i \in 0..Len(h)] ==
            IF i = 0 THEN << >>
            ELSE IF i \in kept THEN Append(F[i - 1], h[i]) ELSE F[i - 1]
    IN  F[Len(h)]

(* the response callback of forwardRequest (index.mjs:216-250) *)
upstreamResponse ==
    /\ impl = "mjs"
    /\ pc = "sent"
    /\ usResp # NoResp
    /\ cli' = [usResp EXCEPT !.hdrs = setHeaders(usResp.hdrs)]
    /\ pc' = "done"
    /\ UNCHANGED << lifeVars, logVars, flowVars, sharedRoot, impl, trVars, reqVars, usResp, rawVars >>

(***************************************************************************)
(* The upgraded connection.  Raw bytes are numbered in the order their     *)
(* writer wrote them.                                                      *)
(***************************************************************************)
BufferSize == 4096

Min(a, b) == IF a <= b THEN a ELSE b

(* the upstream, having switched protocols, writes a byte *)
UpstreamWrite ==
    /\ pc \in { "sent", "forward" }
    /\ usResp.status = 101
    /\ Len(upWrote) < MaxBytes
    /\ upWrote' = Append(upWrote, Len(upWrote) + 1)
    /\ usBuf' = Append(usBuf, Len(upWrote) + 1)
    /\ UNCHANGED << lifeVars, logVars, flowVars, sharedRoot, impl, pc, trVars, reqVars, respVars, cliWrote,
                    dsBuf, upRecv, cliRecv, httpByte, usReaderBuf, hijacked >>

(* the client, having received a response head, writes a byte *)
ClientWrite ==
    /\ pc = "forward"
    /\ usResp.status = 101
    /\ cli # NoResp
    /\ Len(cliWrote) < MaxBytes
    /\ cliWrote' = Append(cliWrote, Len(cliWrote) + 1)
    /\ dsBuf' = Append(dsBuf, Len(cliWrote) + 1)
    /\ UNCHANGED << lifeVars, logVars, flowVars, sharedRoot, impl, pc, trVars, reqVars, respVars, upRecv,
                    upWrote, usBuf, cliRecv, httpByte, usReaderBuf, hijacked >>

(* net/http's connReader.backgroundRead, running while the handler does:
   it reads one byte of the downstream socket and keeps it *)
backgroundRead ==
    /\ impl = "go"
    /\ pc = "forward"
    /\ ~hijacked
    /\ httpByte = << >>
    /\ dsBuf # << >>
    /\ httpByte' = << Head(dsBuf) >>
    /\ dsBuf' = Tail(dsBuf)
    /\ UNCHANGED << lifeVars, logVars, flowVars, sharedRoot, impl, pc, trVars, reqVars, respVars, cliWrote,
                    upRecv, upWrote, usBuf, cliRecv, usReaderBuf, hijacked >>

(* go dsWriter.(http.Hijacker).Hijack() (proxy.go:343): the goroutine stops
   the background read; what it returns is dropped *)
Hijack ==
    /\ impl = "go"
    /\ pc = "forward"
    /\ ~hijacked
    /\ hijacked' = TRUE
    /\ UNCHANGED << lifeVars, logVars, flowVars, sharedRoot, impl, pc, trVars, reqVars, respVars, cliWrote,
                    dsBuf, upRecv, upWrote, usBuf, cliRecv, httpByte, usReaderBuf >>

(* one turn of ProxyFileConn's loop with c1 the upstream and c2 the
   downstream connection: select returns when either can be read, then
   forwardData moves up to a buffer of c1 to c2, then of c2 to c1 *)
ProxyFileConn ==
    /\ impl = "go"
    /\ pc = "forward"
    /\ usBuf # << >> \/ dsBuf # << >>
    /\ LET n1 == Min(Len(usBuf), BufferSize)
           n2 == Min(Len(dsBuf), BufferSize)
       IN  /\ cliRecv' = cliRecv \o SubSeq(usBuf, 1, n1)
           /\ usBuf' = SubSeq(usBuf, n1 + 1, Len(usBuf))
           /\ upRecv' = upRecv \o SubSeq(dsBuf, 1, n2)
           /\ dsBuf' = SubSeq(dsBuf, n2 + 1, Len(dsBuf))
    /\ UNCHANGED << lifeVars, logVars, flowVars, sharedRoot, impl, pc, trVars, reqVars, respVars, cliWrote,
                    upWrote, httpByte, usReaderBuf, hijacked >>

(* socket.pipe(upstreamSocket) (index.mjs:356) *)
pipeUpstream ==
    /\ impl = "mjs"
    /\ pc = "forward"
    /\ dsBuf # << >>
    /\ upRecv' = upRecv \o dsBuf
    /\ dsBuf' = << >>
    /\ UNCHANGED << lifeVars, logVars, flowVars, sharedRoot, impl, pc, trVars, reqVars, respVars, cliWrote,
                    upWrote, usBuf, cliRecv, httpByte, usReaderBuf, hijacked >>

(* upstreamSocket.pipe(socket) (index.mjs:356): the upstream's response
   head and body, then its raw bytes, as they were written *)
pipeDownstream ==
    /\ impl = "mjs"
    /\ pc = "forward"
    /\ usResp # NoResp
    /\ cli = NoResp \/ usBuf # << >>
    /\ cli' = usResp
    /\ cliRecv' = cliRecv \o usBuf
    /\ usBuf' = << >>
    /\ UNCHANGED << lifeVars, logVars, flowVars, sharedRoot, impl, pc, trVars, reqVars, usResp, cliWrote,
                    dsBuf, upRecv, upWrote, httpByte, usReaderBuf, hijacked >>

Next ==
    \/ Receive
    \/ ServeHTTP
    \/ requestListener
    \/ upgradeListener
    \/ UpstreamRespond
    \/ forwardRequest_relay
    \/ forwardRequest_takeover
    \/ upstreamResponse
    \/ UpstreamWrite
    \/ ClientWrite
    \/ backgroundRead
    \/ Hijack
    \/ ProxyFileConn
    \/ pipeUpstream
    \/ pipeDownstream

Spec == Init /\ [][Next]_vars

(***************************************************************************)
(* The life of the process.                                                *)
(***************************************************************************)
(* resetShutdownTimer (index.mjs:66): the timer is cleared, and set again
   when the timeout is positive *)
resetShutdownTimer(timeout) ==
    IF timeout > 0 THEN [armed |-> TRUE, elapsed |-> 0] ELSE NoTimer

(* the head of both listeners (index.mjs:293-296, 337-340): a pending timer
   is cleared *)
clearTimeout_kept(timer) == timer
clearTimeout(timer) == NoTimer

(* what a socket's 'close' takes off the counter: the upgrade listener
   registers socket.on('close') (index.mjs:342); the request listener
   registers res.on('finish') only *)
closeDecrement_always(kind) == 1
closeDecrement(kind) == IF kind = "upgrade" THEN 1 ELSE 0

(* cleanup (index.mjs:382): whether the file at the downstream path is
   unlinked *)
cleanup_unlinks_existing(c, file) == file # "absent"
cleanup_unlinks(c, file) == ~c.activated /\ file # "absent"

(* the connections after the process has exited *)
Cut(cs) ==
    [c \in Conns |->
        IF cs[c].state = "handling" THEN [cs[c] EXCEPT !.state = "killed"]
        ELSE IF cs[c].state = "upgraded" THEN [cs[c] EXCEPT !.state = "severed"]
        ELSE cs[c]]

(* cleanup, then process.exit() *)
cleanup(by) ==
    /\ proc' = [proc EXCEPT
                  !.state = "exited", !.exitBy = by,
                  !.unlinked = @ \/ cleanup_unlinks(cfg, proc.file),
                  !.file = IF cleanup_unlinks(cfg, proc.file) THEN "absent" ELSE @]
    /\ conns' = Cut(conns)
    /\ UNCHANGED << cfg, activeConnections, shutdownTimer >>

(* the process is killed or returns from main: nothing more runs *)
Exit(by) ==
    /\ proc' = [proc EXCEPT !.state = "exited", !.exitBy = by]
    /\ conns' = Cut(conns)
    /\ UNCHANGED << cfg, activeConnections, shutdownTimer >>

InitL ==
    /\ impl \in Impls
    /\ sharedRoot = getSharedMountpoint("Ubuntu")
    /\ tr = NoTr
    /\ Idle
    /\ Quiet
    /\ cfg \in Configs
    /\ impl = "go" => (cfg.shutdownTimeout = -1 /\ ~cfg.activated)
    /\ proc = NotStarted(cfg)
    /\ activeConnections = 0
    /\ shutdownTimer = NoTimer
    /\ conns = [c \in Conns |-> NoConn]

(* what the GET of /_ping may bring: a response with status 200, a
   response with another status, or an error of the client *)
ProbeAnswers == { "ok", "bad", "err" }

(* the value podmanProxy.TestUpstreamSocket returns (proxy.go:77-89): the
   error of the GET; on a status other than 200 it returns err, which is nil
   there (lines 82-84); otherwise the result of closing the body, nil *)
TestUpstreamSocket_returns(answer) ==
    IF answer = "err" THEN "error" ELSE "nil"

(* podmanProxy.TestUpstreamSocket as main calls it (main.go:110-113): a
   returned error is fatal, nil lets main go on to Serve *)
TestUpstreamSocket ==
    /\ impl = "go"
    /\ proc.state = "init"
    /\ \E answer \in ProbeAnswers :
         LET e == TestUpstreamSocket_returns(answer)
         IN  /\ proc' = IF e = "error"
                        THEN [proc EXCEPT !.state = "exited", !.exitBy = "fatal",
                                          !.probe = answer, !.ret = e]
                        ELSE [proc EXCEPT !.state = "probed", !.probe = answer,
                                          !.ret = e]
             /\ UNCHANGED << cfg, activeConnections, shutdownTimer, conns >>
    /\ UNCHANGED << impl, proxyVars >>

(* podmanProxy.Serve to its call of server.Serve (proxy.go:91-103, 122):
   net.Listen fails on a path that exists; then os.Chmod(0660).
   server.listen and its callback (index.mjs:395-398): the descriptor of
   systemd, or the path, on which listen fails with EADDRINUSE if it
   exists and the process dies of the unhandled 'error' event *)
listen ==
    /\ \/ impl = "go" /\ proc.state = "probed"
       \/ impl = "mjs" /\ proc.state = "init"
    /\ IF ~cfg.activated /\ proc.file # "absent"
       THEN /\ proc' = [proc EXCEPT !.state = "exited", !.exitBy = "fatal"]
            /\ UNCHANGED shutdownTimer
       ELSE /\ proc' = [proc EXCEPT
                          !.state = "listening", !.listened = TRUE,
                          !.file = IF cfg.activated THEN @ ELSE "own",
                          !.mode = IF cfg.activated THEN @
                                   ELSE IF impl = "go" THEN "0660" ELSE "default"]
            /\ shutdownTimer' = IF impl = "mjs"
                                THEN resetShutdownTimer(cfg.shutdownTimeout)
                                ELSE shutdownTimer
    /\ UNCHANGED << impl, proxyVars, cfg, activeConnections, conns >>

(* the connections whose duplicated descriptor (proxy.go:320) has been
   closed by the first of its two finalizers while the second is still to
   run, and whose number no live connection has been given since *)
StaleNumbers ==
    { c \in Conns : /\ conns[c].files = 1
                    /\ \A d \in Conns :
                          conns[d].fd = c =>
                             conns[d].state \notin { "handling", "upgraded", "finished" } }

(* a plain request is accepted: the head of the request listener
   (index.mjs:291-303) counts it; net/http starts the handler, and the
   kernel gives the new socket the lowest free descriptor number, which may
   be a stale one *)
acceptRequest(c) ==
    /\ proc.state = "listening"
    /\ conns[c].state = "none"
    /\ IF impl = "mjs"
       THEN /\ activeConnections' = activeConnections + 1
            /\ shutdownTimer' = clearTimeout(shutdownTimer)
            /\ conns' = [conns EXCEPT ![c].state = "handling", ![c].kind = "plain",
                                      ![c].incs = @ + 1]
       ELSE /\ \E n \in StaleNumbers \cup { 0 } :
                 conns' = [conns EXCEPT ![c].state = "handling", ![c].kind = "plain",
                                        ![c].fd = n]
            /\ UNCHANGED << activeConnections, shutdownTimer >>
    /\ UNCHANGED << impl, proxyVars, cfg, proc >>

(* an upgrade request is accepted: the head of the upgrade listener
   (index.mjs:335-347) *)
acceptUpgrade(c) ==
    /\ impl = "mjs"
    /\ proc.state = "listening"
    /\ conns[c].state = "none"
    /\ activeConnections' = activeConnections + 1
    /\ shutdownTimer' = clearTimeout(shutdownTimer)
    /\ conns' = [conns EXCEPT ![c].state = "upgraded", ![c].kind = "upgrade",
                              ![c].incs = @ + 1]
    /\ UNCHANGED << impl, proxyVars, cfg, proc >>

(* forwardRequest's 101 branch (proxy.go:342-350): the handler detaches the
   connection from the server and stays in ProxyFileConn *)
takeover(c) ==
    /\ impl = "go"
    /\ proc.state \in { "listening", "draining" }
    /\ conns[c].state = "handling"
    /\ conns' = [conns EXCEPT ![c].state = "upgraded", ![c].kind = "upgrade",
                              ![c].files = 2]
    /\ UNCHANGED << impl, proxyVars, cfg, proc, activeConnections, shutdownTimer >>

(* the counter after n was taken off it (index.mjs:298-301, 343-346) *)
Uncount(n) ==
    /\ activeConnections' = activeConnections - n
    /\ shutdownTimer' = IF n > 0 /\ activeConnections - n = 0
                        THEN resetShutdownTimer(cfg.shutdownTimeout)
                        ELSE shutdownTimer

(* what may go wrong while a connection is handled *)
Failures == { "dial", "write", "read", "rewrite", "takeover", "panic", "forwarder" }

(* handling connection c fails.  proxy.go answers with http.Error and
   returns (lines 259-289, 321-325, 400-436); logger.Panicf after a failed
   net.FileConn (line 336) panics in the handler's goroutine, where net/http
   recovers and closes the connection, and by then dsFile and the file of
   os.NewFile both own the duplicated descriptor; an error of ProxyFileConn
   is logged and both ends are closed (lines 350-359).  index.mjs answers
   with writeError, whose res.end() lets 'finish' follow (lines 259-266,
   325-328), and destroys both sockets of an upgraded connection
   (lines 361-379) *)
handlerFails(c) ==
    /\ proc.state \in { "listening", "draining" }
    /\ \E f \in Failures :
         /\ f \in { "takeover", "panic" } => impl = "go"
         /\ conns[c].state = (IF f = "forwarder" THEN "upgraded" ELSE "handling")
         /\ IF impl = "mjs"
            THEN LET n == IF f = "forwarder" THEN closeDecrement(conns[c].kind) ELSE 1
                 IN  /\ conns' = [conns EXCEPT
                                    ![c].state = IF f = "forwarder" THEN "closed" ELSE "finished",
                                    ![c].failed = f, ![c].decs = @ + n]
                     /\ Uncount(n)
            ELSE /\ conns' = [conns EXCEPT
                                ![c].state = IF f \in { "forwarder", "panic" }
                                             THEN "closed" ELSE "finished",
                                ![c].failed = f,
                                ![c].files = IF f = "panic" THEN 2 ELSE @]
                 /\ UNCHANGED << activeConnections, shutdownTimer >>
    /\ UNCHANGED << impl, proxyVars, cfg, proc >>

(* a collection runs a finalizer of the two os.Files that own the
   duplicated descriptor of c: the first closes the descriptor; the second
   closes its number again, which fails unless the number has been given to
   another connection's socket, which it then closes *)
finalizer_close(c) ==
    /\ impl = "go"
    /\ proc.state \in { "listening", "draining" }
    /\ conns[c].files > 0
    /\ conns[c].state \in { "upgraded", "closed" }
    /\ conns' = [d \in Conns |->
                   IF d = c THEN [conns[c] EXCEPT !.files = @ - 1]
                   ELSE IF /\ conns[c].files = 1
                           /\ conns[d].fd = c
                           /\ conns[d].state \in { "handling", "upgraded", "finished" }
                   THEN [conns[d] EXCEPT !.state = "broken"]
                   ELSE conns[d]]
    /\ UNCHANGED << impl, proxyVars, cfg, proc, activeConnections, shutdownTimer >>

(* the response is finished: res 'finish' (index.mjs:298); the handler
   returns *)
responseFinish(c) ==
    /\ proc.state \in { "listening", "draining" }
    /\ conns[c].state = "handling"
    /\ IF impl = "mjs"
       THEN /\ conns' = [conns EXCEPT ![c].state = "finished", ![c].decs = @ + 1]
            /\ Uncount(1)
       ELSE /\ conns' = [conns EXCEPT ![c].state = "finished"]
            /\ UNCHANGED << activeConnections, shutdownTimer >>
    /\ UNCHANGED << impl, proxyVars, cfg, proc >>

(* the client goes away before the response is finished: res emits 'close'
   and no 'finish' (index.mjs:249-251) *)
clientAbort(c) ==
    /\ impl = "mjs"
    /\ proc.state = "listening"
    /\ conns[c].state = "handling"
    /\ conns' = [conns EXCEPT ![c].state = "aborted"]
    /\ UNCHANGED << impl, proxyVars, cfg, proc, activeConnections, shutdownTimer >>

(* the socket of a finished or upgraded connection closes (index.mjs:342;
   ProxyFileConn returns, proxy.go:350-359) *)
socketClose(c) ==
    /\ proc.state \in { "listening", "draining" }
    /\ conns[c].state \in { "finished", "upgraded" }
    /\ IF impl = "mjs"
       THEN /\ conns' = [conns EXCEPT ![c].state = "closed",
                                      ![c].decs = @ + closeDecrement(conns[c].kind)]
            /\ Uncount(closeDecrement(conns[c].kind))
       ELSE /\ conns' = [conns EXCEPT ![c].state = "closed"]
            /\ UNCHANGED << activeConnections, shutdownTimer >>
    /\ UNCHANGED << impl, proxyVars, cfg, proc >>

(* time passes on the armed timer *)
tick ==
    /\ proc.state = "listening"
    /\ shutdownTimer.armed
    /\ shutdownTimer.elapsed < cfg.shutdownTimeout
    /\ shutdownTimer' = [shutdownTimer EXCEPT !.elapsed = @ + 1]
    /\ UNCHANGED << impl, proxyVars, cfg, proc, activeConnections, conns >>

(* the timer's callback (index.mjs:72-75) *)
shutdownTimerFires ==
    /\ proc.state = "listening"
    /\ shutdownTimer.armed
    /\ shutdownTimer.elapsed = cfg.shutdownTimeout
    /\ cleanup("idle")
    /\ UNCHANGED << impl, proxyVars >>

(* SIGINT: process.on('SIGINT', cleanup) (index.mjs:391); the goroutine of
   Serve (proxy.go:106-117) calls server.Shutdown, which closes the listener
   (and with it unlinks the socket file) and waits for the handlers that
   the server tracks *)
interrupt ==
    /\ proc.state = "listening"
    /\ IF impl = "mjs" THEN cleanup("signal")
       ELSE /\ proc' = [proc EXCEPT !.state = "draining", !.unlinked = TRUE,
                                    !.file = "absent"]
            /\ UNCHANGED << cfg, activeConnections, shutdownTimer, conns >>
    /\ UNCHANGED << impl, proxyVars >>

(* server.Shutdown returns once no tracked connection is active; Serve and
   main return (proxy.go:116-125): hijacked connections are not waited for *)
Shutdown_returns ==
    /\ impl = "go"
    /\ proc.state = "draining"
    /\ \A c \in Conns : conns[c].state # "handling"
    /\ Exit("signal")
    /\ UNCHANGED << impl, proxyVars >>

(* SIGTERM: process.on('SIGTERM', cleanup) (index.mjs:392); proxy.go
   registers os.Interrupt only, so the runtime ends the process *)
terminate ==
    /\ proc.state \in { "listening", "draining" }
    /\ IF impl = "mjs" THEN cleanup("signal") ELSE Exit("signal")
    /\ UNCHANGED << impl, proxyVars >>

NextL ==
    \/ TestUpstreamSocket
    \/ listen
    \/ \E c \in Conns : acceptRequest(c)
    \/ \E c \in Conns : acceptUpgrade(c)
    \/ \E c \in Conns : takeover(c)
    \/ \E c \in Conns : handlerFails(c)
    \/ \E c \in Conns : finalizer_close(c)
    \/ \E c \in Conns : responseFinish(c)
    \/ \E c \in Conns : clientAbort(c)
    \/ \E c \in Conns : socketClose(c)
    \/ tick
    \/ shutdownTimerFires
    \/ interrupt
    \/ Shutdown_returns
    \/ terminate

SpecL == InitL /\ [][NextL]_vars

(***************************************************************************)
(* ProxyFileConn (rawproxy.go:55-96) step by step, with c1 the upstream    *)
(* and c2 the downstream connection, between two peers.  Side 1 carries    *)
(* the upstream's bytes to the client, side 2 the client's bytes to the    *)
(* upstream.  A socket holds SockCap bytes for a receiver that does not    *)
(* read; net.UnixConn's Read and Write park the goroutine until they can   *)
(* proceed and never return EAGAIN.                                        *)
(***************************************************************************)
Sides == { 1, 2 }

(* everything the forwarder and its peers leave alone *)
fwdFrame ==
    << impl, lifeVars, sharedRoot, pc, trVars, reqVars, respVars, logVars, relay,
       httpByte, usReaderBuf, hijacked >>

InitF ==
    /\ impl = "go"
    /\ sharedRoot = getSharedMountpoint("Ubuntu")
    /\ tr = NoTr
    /\ Idle
    /\ Listening
    /\ relay = NoRelay
    /\ \E w1 \in BOOLEAN, w2 \in BOOLEAN :
         fwd = [NoFwd EXCEPT !.pos = "start", !.up = Peer0(w1), !.client = Peer0(w2)]

(* select(2) reports the descriptor of side k readable: data waits, or the
   peer has closed *)
Readable(k) ==
    IF k = 1 THEN usBuf # << >> \/ fwd.up.closed
    ELSE dsBuf # << >> \/ fwd.client.closed

(* the position after forwardData on side k *)
After(k) == IF k = 1 THEN "read2" ELSE "select"

(* ProxyFileConn's return of err *)
Return(f, err) == [f EXCEPT !.pos = "returned", !.err = err, !.inHand = << >>]

(* getConnFd and setNonBlocking for both connections (rawproxy.go:56-70):
   conn.File() duplicates the descriptor; an error is returned at once *)
getConnFd ==
    /\ fwd.pos = "start"
    /\ \/ fwd' = [fwd EXCEPT !.pos = "select"]
       \/ fwd' = Return(fwd, "setup")
    /\ UNCHANGED << fwdFrame, cliWrote, dsBuf, upRecv, upWrote, usBuf, cliRecv >>

(* the os.File of getConnFd is unreachable once its number is taken
   (rawproxy.go:11-15): at a collection its finalizer closes the
   descriptor ProxyFileConn selects on *)
finalizer ==
    /\ fwd.pos \notin { "none", "start" }
    /\ ~fwd.finalized
    /\ fwd' = [fwd EXCEPT !.finalized = TRUE]
    /\ UNCHANGED << fwdFrame, cliWrote, dsBuf, upRecv, upWrote, usBuf, cliRecv >>

(* unix.Select over both descriptors, no timeout (rawproxy.go:76-81).  On
   closed descriptors it fails, or their numbers have been given to other
   files and it reports whatever those are *)
Select ==
    /\ fwd.pos = "select"
    /\ IF ~fwd.finalized
       THEN /\ \E k \in Sides : Readable(k)
            /\ fwd' = [fwd EXCEPT !.pos = "read1",
                                  !.ready = { k \in Sides : Readable(k) }]
       ELSE \E r \in (SUBSET Sides) \ { { } } :
               fwd' = [fwd EXCEPT !.pos = "read1", !.ready = r]
    /\ UNCHANGED << fwdFrame, cliWrote, dsBuf, upRecv, upWrote, usBuf, cliRecv >>

(* ... if err != nil { return err } (rawproxy.go:82-84) *)
Select_fails ==
    /\ fwd.pos = "select"
    /\ fwd.finalized
    /\ fwd' = Return(fwd, "EBADF")
    /\ UNCHANGED << fwdFrame, cliWrote, dsBuf, upRecv, upWrote, usBuf, cliRecv >>

(* forwardData up to its Write (rawproxy.go:35-45): nothing if the
   descriptor was not reported; else src.Read, which takes up to a buffer
   of what waits, returns io.EOF if the peer has closed, and otherwise
   waits *)
forwardData_read ==
    \E k \in Sides :
      /\ fwd.pos = (IF k = 1 THEN "read1" ELSE "read2")
      /\ LET src    == IF k = 1 THEN usBuf ELSE dsBuf
             closed == IF k = 1 THEN fwd.up.closed ELSE fwd.client.closed
             n      == Min(Len(src), BufferSize)
         IN  IF k \notin fwd.ready
             THEN /\ fwd' = [fwd EXCEPT !.pos = After(k)]
                  /\ UNCHANGED << usBuf, dsBuf >>
             ELSE IF src # << >>
             THEN /\ fwd' = [fwd EXCEPT !.pos = IF k = 1 THEN "write1" ELSE "write2",
                                        !.inHand = SubSeq(src, 1, n)]
                  /\ IF k = 1
                     THEN usBuf' = SubSeq(src, n + 1, Len(src)) /\ UNCHANGED dsBuf
                     ELSE dsBuf' = SubSeq(src, n + 1, Len(src)) /\ UNCHANGED usBuf
             ELSE /\ closed
                  /\ fwd' = Return(fwd, "EOF")
                  /\ UNCHANGED << usBuf, dsBuf >>
      /\ UNCHANGED << fwdFrame, cliWrote, upRecv, upWrote, cliRecv >>

(* dst.Write of the n bytes read (rawproxy.go:46-48): it returns when all n
   bytes are in the socket, or with an error if the peer has closed *)
forwardData_write ==
    \E k \in Sides :
      /\ fwd.pos = (IF k = 1 THEN "write1" ELSE "write2")
      /\ LET dst    == IF k = 1 THEN fwd.toCli ELSE fwd.toUp
             closed == IF k = 1 THEN fwd.client.closed ELSE fwd.up.closed
             m      == Min(SockCap - Len(dst), Len(fwd.inHand))
             rest   == SubSeq(fwd.inHand, m + 1, Len(fwd.inHand))
             moved  == dst \o SubSeq(fwd.inHand, 1, m)
         IN  IF closed
             THEN fwd' = Return(fwd, "EPIPE")
             ELSE /\ m > 0
                  /\ fwd' = [fwd EXCEPT
                               !.inHand = rest,
                               !.pos = IF rest = << >> THEN After(k) ELSE @,
                               !.toCli = IF k = 1 THEN moved ELSE @,
                               !.toUp = IF k = 2 THEN moved ELSE @]
      /\ UNCHANGED << fwdFrame, cliWrote, dsBuf, upRecv, upWrote, usBuf, cliRecv >>

(* forwardRequest after ProxyFileConn has returned (proxy.go:350-359) *)
closeBoth ==
    /\ fwd.pos = "returned"
    /\ fwd' = [fwd EXCEPT !.pos = "closed", !.dsConn = "closed", !.usConn = "closed"]
    /\ UNCHANGED << fwdFrame, cliWrote, dsBuf, upRecv, upWrote, usBuf, cliRecv >>

(* a peer writes its next byte, if its socket takes it *)
PeerWrite ==
    /\ fwd.pos \notin { "none", "closed" }
    /\ \/ /\ ~fwd.up.closed
          /\ Len(upWrote) < MaxBytes
          /\ Len(usBuf) < SockCap
          /\ upWrote' = Append(upWrote, Len(upWrote) + 1)
          /\ usBuf' = Append(usBuf, Len(upWrote) + 1)
          /\ UNCHANGED << cliWrote, dsBuf >>
       \/ /\ ~fwd.client.closed
          /\ Len(cliWrote) < MaxBytes
          /\ Len(dsBuf) < SockCap
          /\ cliWrote' = Append(cliWrote, Len(cliWrote) + 1)
          /\ dsBuf' = Append(dsBuf, Len(cliWrote) + 1)
          /\ UNCHANGED << upWrote, usBuf >>
    /\ UNCHANGED << fwdFrame, fwd, upRecv, cliRecv >>

(* a peer reads what the proxy wrote to it; one that writes first reads
   only when it has written everything *)
PeerRead ==
    /\ \/ /\ ~fwd.up.closed
          /\ fwd.toUp # << >>
          /\ fwd.up.writeFirst => Len(upWrote) = MaxBytes
          /\ upRecv' = upRecv \o fwd.toUp
          /\ fwd' = [fwd EXCEPT !.toUp = << >>]
          /\ UNCHANGED cliRecv
       \/ /\ ~fwd.client.closed
          /\ fwd.toCli # << >>
          /\ fwd.client.writeFirst => Len(cliWrote) = MaxBytes
          /\ cliRecv' = cliRecv \o fwd.toCli
          /\ fwd' = [fwd EXCEPT !.toCli = << >>]
          /\ UNCHANGED upRecv
    /\ UNCHANGED << fwdFrame, cliWrote, dsBuf, upWrote, usBuf >>

(* a peer closes its end of the connection *)
PeerClose ==
    /\ fwd.pos \notin { "none", "closed" }
    /\ \/ /\ ~fwd.up.closed
          /\ fwd' = [fwd EXCEPT !.up.closed = TRUE]
       \/ /\ ~fwd.client.closed
          /\ fwd' = [fwd EXCEPT !.client.closed = TRUE]
    /\ UNCHANGED << fwdFrame, cliWrote, dsBuf, upRecv, upWrote, usBuf, cliRecv >>

(* the steps of the proxy *)
ProxyF ==
    \/ getConnFd
    \/ Select
    \/ Select_fails
    \/ forwardData_read
    \/ forwardData_write
    \/ closeBoth

NextF ==
    \/ ProxyF
    \/ finalizer
    \/ PeerWrite
    \/ PeerRead
    \/ PeerClose

SpecF == InitF /\ [][NextF]_vars

(* the scheduler runs the forwarder's goroutine whenever it can go on, and
   a peer that can go on does *)
SpecFLive ==
    /\ SpecF
    /\ WF_vars(ProxyF)
    /\ WF_vars(PeerWrite)
    /\ WF_vars(PeerRead)

(***************************************************************************)
(* forwardRequest on one request, step by step: the dial, the request, the *)
(* response head, the body chunk by chunk, and the upstream connection's   *)
(* end.  The upstream answers when it likes and may stay silent; the       *)
(* client may disconnect at any time.                                      *)
(***************************************************************************)
relayFrame ==
    << impl, lifeVars, sharedRoot, pc, trVars, reqVars, respVars, logVars, rawVars, fwd >>

InitR ==
    /\ impl \in Impls
    /\ sharedRoot = getSharedMountpoint("Ubuntu")
    /\ tr = NoTr
    /\ Idle
    /\ Listening
    /\ fwd = NoFwd
    /\ \E k \in { "plain", "switch" }, n \in 0..MaxChunks,
          rr \in BOOLEAN, ka \in BOOLEAN, po \in BOOLEAN :
         /\ k = "switch" => (impl = "go" /\ n = 0)
         /\ impl = "go" => (~rr /\ ~ka)
         /\ po => ka
         /\ relay = [NoRelay EXCEPT !.pos = "start", !.kind = k, !.toSend = n,
                                    !.reqRead = rr, !.keepAlive = ka, !.pooled = po]

(* the handler returns: the deferred usConn.Close() of proxy.go:266-273
   runs, and net/http sends what its writer still holds *)
Returns(r, err) ==
    [r EXCEPT !.pos = "returned", !.err = err, !.inHand = << >>, !.wbuf = << >>,
              !.usConn = IF @ = "open" THEN "closed" ELSE @,
              !.got = IF r.client = "open" THEN @ \o r.wbuf ELSE @]

(* flusherWriter.Write (proxy.go:235-240): w.Write(p), then the deferred
   Flush: what the writer held and p go out *)
flusherWriter_Write_unflushed(wbuf, p) == [wbuf |-> wbuf \o p, sent |-> << >>]

flusherWriter_Write(wbuf, p) == [wbuf |-> << >>, sent |-> wbuf \o p]

(* net.Dial("unix", p.upstream) (proxy.go:258-263) *)
dial ==
    /\ impl = "go"
    /\ relay.pos = "start"
    /\ \/ relay' = [relay EXCEPT !.pos = "dialled", !.usConn = "open", !.dialled = @ + 1]
       \/ relay' = Returns(relay, "502")
    /\ UNCHANGED relayFrame

(* usReq.Write(usConn) (proxy.go:276-280) *)
writeRequest ==
    /\ impl = "go"
    /\ relay.pos = "dialled"
    /\ \/ relay' = [relay EXCEPT !.pos = "written"]
       \/ relay' = Returns(relay, "502")
    /\ UNCHANGED relayFrame

(* http.ReadResponse and, for a plain response, WriteHeader
   (proxy.go:283-304): the read waits for the upstream's head and fails if
   the upstream closes without one *)
ReadResponse ==
    /\ impl = "go"
    /\ relay.pos = "written"
    /\ IF relay.head
       THEN relay' = IF relay.kind = "switch"
                     THEN [relay EXCEPT !.pos = "takeover"]
                     ELSE [relay EXCEPT !.pos = "copy-read", !.wbuf = << HeadItem >>]
       ELSE /\ relay.upEnded
            /\ relay' = Returns(relay, "500")
    /\ UNCHANGED relayFrame

(* io.Copy's Read of usResp.Body (proxy.go:309): the next chunk, or the end
   of the body; it waits while the upstream sends neither *)
copyRead ==
    /\ impl = "go"
    /\ relay.pos = "copy-read"
    /\ IF relay.left # << >>
       THEN relay' = [relay EXCEPT !.pos = "copy-write",
                                   !.inHand = << Head(relay.left) >>,
                                   !.left = Tail(@), !.nread = @ + 1]
       ELSE /\ relay.upEnded
            /\ relay' = Returns(relay, "none")
    /\ UNCHANGED relayFrame

(* io.Copy's Write to the flusherWriter (proxy.go:306-311): an error, which
   a client that is gone causes, ends the copy *)
copyWrite ==
    /\ impl = "go"
    /\ relay.pos = "copy-write"
    /\ IF relay.client = "gone"
       THEN relay' = Returns(relay, "copy")
       ELSE LET w == flusherWriter_Write(relay.wbuf, relay.inHand)
            IN  relay' = [relay EXCEPT !.pos = "copy-read", !.inHand = << >>,
                                       !.wbuf = w.wbuf, !.got = @ \o w.sent]
    /\ UNCHANGED relayFrame

(* the protocol switch (proxy.go:312-350): File() may fail (500, return),
   net.FileConn may fail (Panicf, the deferred Close runs), or
   ProxyFileConn starts and getConnFd duplicates the upstream's descriptor
   into an os.File nobody closes *)
takeOver ==
    /\ impl = "go"
    /\ relay.pos = "takeover"
    /\ \/ relay' = Returns(relay, "500")
       \/ relay' = Returns(relay, "panic")
       \/ relay' = [relay EXCEPT !.pos = "forwarding", !.usDup = TRUE]
    /\ UNCHANGED relayFrame

(* ProxyFileConn returns, both connections are closed and the handler
   returns (proxy.go:350-362) *)
forwarderReturns ==
    /\ impl = "go"
    /\ relay.pos = "forwarding"
    /\ relay' = Returns(relay, "none")
    /\ UNCHANGED relayFrame

(* a collection runs the finalizer of getConnFd's os.File *)
finalizeDup ==
    /\ relay.usDup
    /\ relay' = [relay EXCEPT !.usDup = FALSE]
    /\ UNCHANGED relayFrame

(* http.request(options) and the writing of the request
   (index.mjs:205-216, 268-276): no agent is named, so the global agent
   gives the socket, an idle one it kept if it keeps any, else a new one;
   a failed connect reaches upstreamReq's 'error' listener *)
request_mjs ==
    /\ impl = "mjs"
    /\ relay.pos = "start"
    /\ \/ /\ relay.keepAlive /\ relay.pooled
          /\ relay' = [relay EXCEPT !.pos = "written", !.usConn = "open",
                                    !.pooled = FALSE, !.reused = TRUE]
       \/ /\ ~(relay.keepAlive /\ relay.pooled)
          /\ \/ relay' = [relay EXCEPT !.pos = "written", !.usConn = "open",
                                       !.dialled = @ + 1]
             \/ relay' = Returns(relay, "500")
    /\ UNCHANGED relayFrame

(* the response callback (index.mjs:216-257): head and flushHeaders, and
   the listeners of the response are set *)
response_mjs ==
    /\ impl = "mjs"
    /\ relay.pos = "written"
    /\ relay.usConn = "open"
    /\ relay.head
    /\ relay' = [relay EXCEPT !.pos = "streaming",
                              !.got = IF relay.client = "open" THEN << HeadItem >> ELSE @]
    /\ UNCHANGED relayFrame

(* upstreamRes.on('data') (index.mjs:229-234) *)
data_mjs ==
    /\ impl = "mjs"
    /\ relay.pos = "streaming"
    /\ relay.usConn = "open"
    /\ relay.left # << >>
    /\ relay' = [relay EXCEPT !.left = Tail(@), !.nread = @ + 1,
                              !.got = IF relay.client = "open"
                                      THEN Append(@, Head(relay.left)) ELSE @]
    /\ UNCHANGED relayFrame

(* upstreamRes.on('end') (index.mjs:240-242): res.end(), and the agent
   takes the socket back, keeping it if it keeps any *)
end_mjs ==
    /\ impl = "mjs"
    /\ relay.pos = "streaming"
    /\ relay.usConn = "open"
    /\ relay.left = << >>
    /\ relay.upEnded
    /\ relay' = [relay EXCEPT !.pos = "returned",
                              !.usConn = IF relay.keepAlive THEN "pooled" ELSE "closed"]
    /\ UNCHANGED relayFrame

(* upstreamReq.on('error') (index.mjs:259-266): the upstream closed
   without answering *)
error_mjs ==
    /\ impl = "mjs"
    /\ relay.pos = "written"
    /\ relay.usConn = "open"
    /\ ~relay.head /\ relay.upEnded
    /\ relay' = [relay EXCEPT !.pos = "returned", !.usConn = "closed", !.err = "500"]
    /\ UNCHANGED relayFrame

(* req.on('aborted') and res.on('close') (index.mjs:249-251, 279-282):
   upstreamReq.abort() / upstreamRes.destroy() *)
abort_mjs ==
    /\ impl = "mjs"
    /\ relay.pos \in { "written", "streaming" }
    /\ relay.usConn = "open"
    /\ relay.abortedEmitted \/ relay.closeHeard
    /\ relay' = [relay EXCEPT !.pos = "returned", !.usConn = "closed", !.err = "aborted"]
    /\ UNCHANGED relayFrame

(* the client disconnects.  Node emits 'close' on the response, heard by
   the listener if the response callback has set it (index.mjs:249), and on
   the request 'aborted' if it was not read to its end and 'error'
   otherwise: both listeners (index.mjs:279-287) call upstreamReq.abort().
   The listener of index.mjs calls forwardRequest in the turn of the event
   loop that delivers the request.  net/http cancels the context of the
   request, which proxy.go has replaced by context.Background() (line 243) *)
ClientDisconnect ==
    /\ relay.pos \notin { "none", "returned" }
    /\ impl = "mjs" => relay.pos # "start"
    /\ relay.client = "open"
    /\ relay' = [relay EXCEPT !.client = "gone",
                     !.abortedEmitted = (impl = "mjs"),
                     !.closeHeard = (impl = "mjs" /\ relay.pos = "streaming")]
    /\ UNCHANGED relayFrame

(* the upstream sends its response head *)
UpstreamHead ==
    /\ relay.pos \in { "written" }
    /\ ~relay.head /\ ~relay.upEnded
    /\ relay' = [relay EXCEPT !.head = TRUE]
    /\ UNCHANGED relayFrame

(* ... its next body chunk *)
UpstreamChunk ==
    /\ relay.usConn = "open"
    /\ relay.head
    /\ relay.toSend > 0
    /\ relay' = [relay EXCEPT !.toSend = @ - 1,
                              !.left = Append(@, relay.nread + Len(relay.left) + 1)]
    /\ UNCHANGED relayFrame

(* ... and ends the body, or closes without having answered *)
UpstreamEnd ==
    /\ relay.usConn = "open"
    /\ relay.pos # "dialled"
    /\ relay.toSend = 0 \/ ~relay.head
    /\ ~relay.upEnded
    /\ relay' = [relay EXCEPT !.upEnded = TRUE]
    /\ UNCHANGED relayFrame

(* the steps of the proxy *)
ProxyR ==
    \/ dial
    \/ writeRequest
    \/ ReadResponse
    \/ copyRead
    \/ copyWrite
    \/ takeOver
    \/ forwarderReturns
    \/ request_mjs
    \/ response_mjs
    \/ data_mjs
    \/ end_mjs
    \/ error_mjs
    \/ abort_mjs

NextR ==
    \/ ProxyR
    \/ finalizeDup
    \/ ClientDisconnect
    \/ UpstreamHead
    \/ UpstreamChunk
    \/ UpstreamEnd

SpecR == InitR /\ [][NextR]_vars

(* the handler's goroutine, or node's event loop, runs whenever it can;
   nothing is assumed of the upstream *)
SpecRLive == SpecR /\ WF_vars(ProxyR)
(***************************************************************************)
(* Claims about the path translator (checked under SpecT).                 *)
(***************************************************************************)
IsAbsolute(p) == HasPrefix(p, << "/" >>)
IsLocal(conv) == ~conv.err /\ HasPrefix(conv.out, WslLocalPrefix)

(* sharedRoot + hostPath, "path-joined, leading slash stripped once", in the
   implementation's own path library *)
PathJoin(im, root, p) ==
    IF im = "go" THEN GoJoin(root, Slice1(p)) ELSE NodeJoin(root, Slice1(p))

(* C8: for a host path that does not start with the shared-mount prefix,
   Translate returns the conversion result unchanged when it is not under the
   local-filesystem prefix, the path-join of sharedRoot and the host path when
   it is and the host path is absolute, an error and no path when it is and
   the host path is not absolute, and an error when the conversion fails. *)
C8_TranslateCases ==
    (tr.phase # "input" /\ ~HasPrefix(tr.hostPath, SharedMountPrefix)) =>
        /\ tr.res.consulted
        /\ tr.conv.err => (~tr.res.ok /\ tr.res.path = << >>)
        /\ (~tr.conv.err /\ ~IsLocal(tr.conv)) =>
               (tr.res.ok /\ tr.res.path = tr.conv.out)
        /\ (IsLocal(tr.conv) /\ IsAbsolute(tr.hostPath)) =>
               (tr.res.ok /\ tr.res.path = PathJoin(tr.impl, sharedRoot, tr.hostPath))
        /\ (IsLocal(tr.conv) /\ ~IsAbsolute(tr.hostPath)) =>
               (~tr.res.ok /\ tr.res.path = << >>)

(* C8's case: a local absolute path with a segment the join rewrites *)
C8_Witness ==
    /\ tr.phase = "once"
    /\ ~HasPrefix(tr.hostPath, SharedMountPrefix)
    /\ IsLocal(tr.conv) /\ IsAbsolute(tr.hostPath)
    /\ tr.res.ok
    /\ tr.res.path # sharedRoot \o tr.hostPath
    /\ Len(tr.res.path) > Len(sharedRoot) + 1

(* C9: a path that already starts with the shared-root prefix is returned
   unchanged without consulting the conversion, and so for every absolute
   local path q, Translate(Translate(q)) = Translate(q). *)
C9_Idempotent ==
    /\ (tr.phase # "input" /\ HasPrefix(tr.hostPath, sharedRoot)) =>
           tr.res = TOk(tr.hostPath, FALSE)
    /\ (tr.phase = "twice" /\ HasPrefix(tr.res.path, sharedRoot)) =>
           tr.res2 = TOk(tr.res.path, FALSE)
    /\ (tr.phase = "twice" /\ IsAbsolute(tr.hostPath)
          /\ (tr.res.consulted => IsLocal(tr.conv))) =>
           (tr.res2.ok /\ tr.res2.path = tr.res.path)


(* root is a path prefix of p: p is root or lies below it *)
IsUnder(p, root) == p = root \/ HasPrefix(p, root \o << "/" >>)

(* C33: for every absolute host path for which the conversion was asked and
   answered with a local path, also one with ".." segments or repeated
   slashes, Translate returns a path of which sharedRoot is a path prefix. *)
C33_UnderSharedRoot ==
    (/\ tr.phase # "input"
     /\ IsAbsolute(tr.hostPath)
     /\ tr.res.consulted
     /\ IsLocal(tr.conv)) =>
        /\ tr.res.ok
        /\ IsUnder(tr.res.path, sharedRoot)

(***************************************************************************)
(* Claims about the proxy (checked under Spec).                            *)
(***************************************************************************)
(* the handler has run on the request *)
Handled == pc \notin { "idle", "received" }

(* the request the specification intercepts: POST, and the path with a
   leading /vMAJOR.MINOR(.PATCH)?/ stripped is a creation endpoint *)
DocIntercepted(r) ==
    /\ r.method = "POST"
    /\ StripVersion("doc", r.path) \in { ContainersCreate, LibpodCreate }

(* ... with a content type the rewriters accept *)
CreateOf(r, endpoint) ==
    /\ r.method = "POST"
    /\ StripVersion("doc", r.path) = endpoint
    /\ HeaderGet(r.hdrs, "Content-Type") \in { "", "application/json" }

(* Translate of host path p in the running proxy *)
TranslateOf(p) == Translate(impl, sharedRoot, p, ToWindows(wsl, p))

(* the proxy answered the request with an error of its own making *)
RewriteFailed == cli.status = 400 \/ cli.msg = "Error processing request body"

(* C1: after a protocol switch and takeover, under every interleaving of
   client and upstream writes, what the upstream has received followed by
   what still waits in the downstream socket is exactly what the client
   wrote, and what the client has received followed by what still waits in
   the upstream socket is exactly what the upstream wrote: no byte is lost,
   duplicated, reordered or taken by another reader. *)
C1_RawBytesIntact ==
    (pc = "forward" /\ usResp.status = 101) =>
        /\ upRecv \o dsBuf = cliWrote
        /\ cliRecv \o usBuf = upWrote

(* C2: when the upstream answers with a protocol switch, the client receives
   status 101 and the upstream's headers before any raw byte, never another
   status and never raw bytes without a status. *)
C2_SwitchRelayed ==
    (pc = "forward" /\ usResp.status = 101) =>
        \/ cli = NoResp /\ cliRecv = << >>
        \/ cli.status = 101 /\ SamePairs(cli.hdrs, usResp.hdrs)

(* C3: a request that is not intercepted (it is none the specification
   intercepts, and the proxy did not buffer it) is written upstream with the
   same method, path, header names (casing kept) and values, and body; and
   the response is relayed with the same status, exactly the upstream's
   header pairs, and the same body. *)
C3_RelayVerbatim ==
    (Handled /\ ~DocIntercepted(req) /\ ~buffered) =>
        /\ usReq.written =>
              /\ usReq.method = req.method
              /\ usReq.path = req.path
              /\ SamePairs(usReq.hdrs, req.hdrs)
              /\ usReq.body = req.body
        /\ (pc = "done" /\ usResp # NoResp) =>
              /\ cli.status = usResp.status
              /\ SamePairs(cli.hdrs, usResp.hdrs)
              /\ cli.chunks = usResp.chunks

(* C4: a request that is not a POST to a creation endpoint (after stripping
   /vMAJOR.MINOR(.PATCH)?/) is forwarded with its body unmodified and is not
   buffered in full first. *)
C4_OnlyCreateIntercepted ==
    (Handled /\ ~DocIntercepted(req)) =>
        /\ ~buffered
        /\ usReq.written => (~usReq.rewritten /\ usReq.body = req.body)

(* C5: for every HostConfig.Binds array of a POST /containers/create body
   whose string entries translate, the rewrite does not fail, and the
   rewritten array has the same length and order, every non-string entry
   as it was, and every string entry with only its first colon-delimited
   segment replaced by its translation. *)
C5_BindsRewritten ==
    LET b == req.body
        first(e) == Split(e.text, ":")[1]
    IN  (/\ Handled
         /\ CreateOf(req, ContainersCreate)
         /\ b.kind = "docker" /\ b.hasHostConfig /\ b.hasBinds
         /\ \A i \in 1..Len(b.binds) :
               b.binds[i].str => TranslateOf(first(b.binds[i])).ok) =>
        /\ ~RewriteFailed
        /\ usReq.written =>
              /\ Len(usReq.body.binds) = Len(b.binds)
              /\ \A i \in 1..Len(b.binds) :
                    usReq.body.binds[i] =
                        IF b.binds[i].str
                        THEN StrBind(JoinWith(
                               [Split(b.binds[i].text, ":") EXCEPT
                                  ![1] = TranslateOf(first(b.binds[i])).path], ":"))
                        ELSE b.binds[i]

(* C6: for every POST /libpod/containers/create whose body has a mounts
   array, the body forwarded upstream has the source of every element of
   type "bind" replaced by its translation. *)
C6_MountsRewritten ==
    LET b == req.body
    IN  (/\ usReq.written
         /\ CreateOf(req, LibpodCreate)
         /\ b.kind = "libpod" /\ b.hasMounts) =>
        /\ Len(usReq.body.mounts) = Len(b.mounts)
        /\ \A i \in 1..Len(b.mounts) :
              b.mounts[i].type = "bind" =>
                 /\ TranslateOf(b.mounts[i].source).ok
                 /\ usReq.body.mounts[i].source = TranslateOf(b.mounts[i].source).path

(* C7: an element of a libpod mounts array whose type is not "bind" keeps
   its source, and its presence neither has its source translated nor makes
   the request fail. *)
C7_NonBindUntouched ==
    LET b == req.body
    IN  (/\ Handled
         /\ CreateOf(req, LibpodCreate)
         /\ b.kind = "libpod" /\ b.hasMounts
         /\ \A i \in 1..Len(b.mounts) :
               b.mounts[i].type = "bind" => TranslateOf(b.mounts[i].source).ok) =>
        /\ ~RewriteFailed
        /\ usReq.written =>
              /\ Len(usReq.body.mounts) = Len(b.mounts)
              /\ \A i \in 1..Len(b.mounts) :
                    b.mounts[i].type # "bind" => usReq.body.mounts[i] = b.mounts[i]

(* C10: a request forwarded with a rewritten body declares one body length,
   and it is the byte length of the rewritten body: a Content-Length equal
   to it, or a chunked encoding, never both. *)
C10_OneBodyLength ==
    (usReq.written /\ usReq.rewritten) =>
        /\ ~(usReq.cl >= 0 /\ usReq.chunked)
        /\ usReq.cl >= 0 \/ usReq.chunked
        /\ usReq.cl >= 0 => usReq.cl = ByteLen(usReq.body)

(* translating some bind-mount path of the intercepted request fails *)
TranslationFails ==
    LET b == req.body
    IN  \/ /\ CreateOf(req, ContainersCreate)
           /\ b.kind = "docker" /\ b.hasHostConfig /\ b.hasBinds
           /\ \E i \in 1..Len(b.binds) :
                 b.binds[i].str /\ ~TranslateOf(Split(b.binds[i].text, ":")[1]).ok
        \/ /\ CreateOf(req, LibpodCreate)
           /\ b.kind = "libpod" /\ b.hasMounts
           /\ \E i \in 1..Len(b.mounts) :
                 b.mounts[i].type = "bind" /\ ~TranslateOf(b.mounts[i].source).ok

(* C11: if translating a bind-mount path of an intercepted request fails,
   nothing is written upstream for the request and the client receives a
   4xx response that carries the cause. *)
C11_TranslationFailure ==
    (Handled /\ TranslationFails) =>
        /\ ~usReq.written
        /\ cli.status \in 400..499
        /\ cli.msg # ""

(* C20: if the dial of the upstream socket fails, the client receives 502,
   the dial was attempted once, and nothing is written upstream. *)
C20_DialFailure ==
    (\E i \in 1..Len(dials) : dials[i] = "failed") =>
        /\ Len(dials) = 1
        /\ ~usReq.written
        /\ cli.status = 502

(* the request signals the intent to upgrade in its Connection header *)
AsksUpgrade(r) ==
    "upgrade" \in ConnectionTokens(HeaderGet(CanonHeaders(r.hdrs), "Connection"))

(* C29: the request proxy.go writes upstream carries Connection: close
   unless the original request lists the upgrade token in its Connection
   header, alone or with other tokens, and then Connection is sent as it
   was received. *)
C29_ConnectionHeader ==
    (impl = "go" /\ usReq.written) =>
        HeaderGet(usReq.hdrs, "Connection") =
            IF AsksUpgrade(req) THEN HeaderGet(CanonHeaders(req.hdrs), "Connection")
            ELSE "close"

(* C30: a POST to a creation endpoint that declares a content type other
   than application/json is not buffered for decoding, is not answered
   before the upstream is dialled, and is written upstream with the body it
   came with. *)
C30_OtherContentType ==
    (/\ Handled
     /\ DocIntercepted(req)
     /\ HeaderGet(CanonHeaders(req.hdrs), "Content-Type") \notin { "", "application/json" }) =>
        /\ ~buffered
        /\ Len(dials) = 1
        /\ usReq.written => (~usReq.rewritten /\ usReq.body = req.body)

(* C26: on an upgraded connection the bytes reach each peer from the first
   one its partner wrote, in order and with none skipped: what the proxy had
   already read past the response head or past the request when it took the
   connection over is delivered before any later byte. *)
C26_NothingLostAtTakeover ==
    (pc = "forward" /\ usResp.status = 101) =>
        /\ \A i \in 1..Len(cliRecv) : cliRecv[i] = i
        /\ \A i \in 1..Len(upRecv) : upRecv[i] = i

(* C22: what proxy.go writes upstream and what it answers depend on the
   request, the conversions, the dial and the upstream's response alone: for
   every outcome of the peer lookups the handler runs on, decides as
   ServeHTTP decides for the request, writes the request forwardRequest
   writes for it, and relays the upstream's status and body. *)
C22_IdentityIrrelevant ==
    (impl = "go" /\ Handled) =>
        LET d == ServeHTTP_decide(sharedRoot, req, wsl)
        IN  /\ buffered = d.buffered
            /\ ~d.forward => (~usReq.written /\ cli = ErrorReply(d.status, "err.Error()"))
            /\ d.forward => Len(dials) = 1
            /\ (d.forward /\ dials = << "ok" >>) => usReq = forwardRequest_write(req, d)
            /\ (d.forward /\ dials = << "failed" >>) =>
                  (~usReq.written /\ cli = ErrorReply(502, "err.Error()"))
            /\ (pc = "done" /\ usResp # NoResp) =>
                  (cli.status = usResp.status /\ cli.chunks = usResp.chunks)

(* a request was forwarded and answered on a connection whose peer's
   credentials could not be read *)
C22_Witness ==
    /\ impl = "go"
    /\ ident.file /\ ~ident.cred
    /\ "pid" \notin logger
    /\ pc = "done"
    /\ usReq.written
    /\ cli.status = 200

(* C32: when proxy.go has rewritten a create body whose HostConfig.Binds is
   an array, the body written upstream has Binds as an array of the same
   length: an empty array stays an empty array and is neither null nor
   absent. *)
C32_BindsStaysArray ==
    LET b == req.body
    IN  (/\ impl = "go"
         /\ usReq.written
         /\ usReq.rewritten
         /\ b.kind = "docker" /\ b.hasHostConfig /\ b.hasBinds /\ ~b.bindsNull) =>
        /\ usReq.body.hasHostConfig
        /\ usReq.body.hasBinds
        /\ ~usReq.body.bindsNull
        /\ Len(usReq.body.binds) = Len(b.binds)

(***************************************************************************)
(* Claims about the life of the process (checked under SpecL).             *)
(***************************************************************************)
(* connection c is active: accepted, and its terminal event has not come *)
Active(c) == conns[c].state \in { "handling", "upgraded" }

RECURSIVE Counted(_)
Counted(n) ==
    IF n = 0 THEN 0 ELSE conns[n].incs - conns[n].decs + Counted(n - 1)

(* C12: under every interleaving of request accepts, upgrade accepts,
   response-finish and socket-close events on concurrent connections, the
   counter is never negative, no connection is taken off it more often
   than it was put on, and the counter is what was put on less what was
   taken off. *)
C12_CounterSound ==
    /\ activeConnections >= 0
    /\ \A c \in Conns : conns[c].decs <= conns[c].incs
    /\ activeConnections = Counted(MaxConns)

(* C12's case: a plain connection finished and closed while an upgraded one
   is still counted *)
C12_Witness ==
    \E c, d \in Conns :
        /\ conns[c].kind = "plain" /\ conns[c].state = "closed"
        /\ conns[c].incs = 1 /\ conns[c].decs = 1
        /\ conns[d].state = "upgraded" /\ conns[d].incs = 1
        /\ activeConnections = 1

(* C13: while the process listens, the idle timer is armed if and only if
   the configured timeout is not negative and the counter is zero. *)
C13_TimerIffIdle ==
    proc.state = "listening" =>
        (shutdownTimer.armed <=> (cfg.shutdownTimeout >= 0 /\ activeConnections = 0))

(* C14: with a timeout T > 0: while the counter is zero the timer runs, and
   once T has passed without an arrival its callback is due and ends the
   process; an arrival cancels the pending timer, so that no timer is armed
   while a connection is active and the idle exit cuts no connection. *)
C14_IdleShutdown ==
    cfg.shutdownTimeout > 0 =>
        /\ (proc.state = "listening" /\ activeConnections = 0) => shutdownTimer.armed
        /\ (proc.state = "listening" /\ shutdownTimer.armed
              /\ shutdownTimer.elapsed = cfg.shutdownTimeout) =>
                 ENABLED shutdownTimerFires
        /\ (\E c \in Conns : Active(c)) => ~shutdownTimer.armed
        /\ proc.exitBy = "idle" =>
              /\ proc.state = "exited"
              /\ shutdownTimer.elapsed = cfg.shutdownTimeout
              /\ \A c \in Conns : conns[c].state \notin { "killed", "severed" }

(* C14's case: a connection came and ended, and the timer then ran out *)
C14_Witness ==
    /\ proc.exitBy = "idle"
    /\ cfg.shutdownTimeout = MaxTimeout
    /\ \E c \in Conns : conns[c].state \in { "finished", "closed" }

(* C15: once every connection has ended, for whatever reason, the counter
   is zero and, with a positive timeout, the idle timer is armed. *)
C15_AllUncounted ==
    (proc.state = "listening" /\ \A c \in Conns : ~Active(c)) =>
        /\ activeConnections = 0
        /\ cfg.shutdownTimeout > 0 => shutdownTimer.armed

(* C16: in index.mjs, after a shutdown by idle timer or signal the socket
   file the process created is gone, and with a descriptor supplied by
   socket activation the file at the downstream path is never unlinked. *)
C16_SocketFile ==
    impl = "mjs" =>
        /\ cfg.activated =>
              (~proc.unlinked /\ proc.file = NotStarted(cfg).file)
        /\ (~cfg.activated /\ proc.exitBy \in { "idle", "signal" }) =>
              proc.file = "absent"

(* C16's case: activated over an existing file, shut down, file in place *)
C16_Witness ==
    /\ impl = "mjs"
    /\ cfg.activated /\ cfg.stale
    /\ proc.exitBy = "signal"
    /\ proc.file = "stale"

(* C17: once shutdown is triggered nothing is accepted, the process does
   not exit before every running handler has returned, and connections in
   raw forwarding are not severed. *)
C17_GracefulShutdown ==
    /\ \A c \in Conns : conns[c].state \notin { "killed", "severed" }
    /\ proc.state \in { "draining", "exited" } => ~(ENABLED (\E c \in Conns : acceptRequest(c)))

(* C18: the process never listens unless the health probe succeeded first,
   and a failed probe ends it without it ever having listened. *)
C18_ProbeFirst ==
    /\ proc.listened => proc.probe = "ok"
    /\ proc.probe \in { "bad", "err" } =>
          (proc.state = "exited" /\ proc.exitBy = "fatal" /\ ~proc.listened)

(* C19: when the process creates the socket itself, a stale file at the
   path does not make startup fail, and the socket has its restrictive mode
   before a connection is accepted. *)
C19_StaleAndMode ==
    ~cfg.activated =>
        /\ (cfg.stale /\ proc.exitBy = "fatal") => proc.probe = "err"
        /\ (\E c \in Conns : conns[c].state # "none") => proc.mode = "0660"

(* C23: when the handling of a connection has failed, the process has not
   exited for it, no other connection has been ended by anything but its own
   course, every other connection in hand can still be finished, and a new
   connection is still accepted. *)
C23_FailureContained ==
    (\E c \in Conns : conns[c].failed # "none") =>
        /\ proc.exitBy \in { "none", "signal", "idle" }
        /\ \A d \in Conns : conns[d].state # "broken"
        /\ proc.state = "listening" =>
              /\ \A d \in Conns :
                    conns[d].state = "handling" => ENABLED responseFinish(d)
              /\ \A d \in Conns :
                    conns[d].state = "none" => ENABLED acceptRequest(d)

(* C31: whenever the health probe was answered with a status other than 200,
   TestUpstreamSocket has returned an error and the process has ended
   without listening, as it does when the upstream cannot be reached. *)
C31_BadStatusIsError ==
    (impl = "go" /\ proc.probe \in { "bad", "err" }) =>
        /\ proc.ret = "error"
        /\ proc.state = "exited"
        /\ proc.exitBy = "fatal"
        /\ ~proc.listened

(***************************************************************************)
(* Claims about the raw forwarder (checked under SpecF and SpecFLive).     *)
(***************************************************************************)
(* the forwarder runs and neither peer has closed *)
BothOpen ==
    /\ fwd.pos \notin { "returned", "closed" }
    /\ ~fwd.up.closed
    /\ ~fwd.client.closed

(* how many of the bytes of side k have been written to the other side *)
Forwarded(k) ==
    IF k = 1 THEN Len(fwd.toCli) + Len(cliRecv) ELSE Len(fwd.toUp) + Len(upRecv)

(* C27: while both streams are open, every byte that has become readable on
   one side of ProxyFileConn is eventually written to the other side,
   whatever the other direction is doing, also between peers that write
   before they read. *)
C27_NoStall ==
    \A n \in 1..MaxBytes :
       /\ (Len(upWrote) >= n /\ BothOpen) ~> (Forwarded(1) >= n \/ ~BothOpen)
       /\ (Len(cliWrote) >= n /\ BothOpen) ~> (Forwarded(2) >= n \/ ~BothOpen)

(* C28: once its loop runs, ProxyFileConn returns only because a side was
   closed or a read or write failed, with that error; and when the caller
   is done, both connections are closed. *)
C28_ForwarderEnds ==
    /\ (fwd.pos \in { "returned", "closed" } /\ fwd.err # "setup") =>
          fwd.err \in { "EOF", "EPIPE" }
    /\ fwd.err \in { "EOF", "EPIPE" } => (fwd.up.closed \/ fwd.client.closed)
    /\ fwd.pos = "closed" => (fwd.dsConn = "closed" /\ fwd.usConn = "closed")

(***************************************************************************)
(* Claims about forwardRequest step by step (SpecR and SpecRLive).         *)
(***************************************************************************)
(* the request is in the hands of forwardRequest *)
InHand == relay.pos \notin { "none", "start", "returned" }

(* the upstream socket of the request is not open any more: the proxy holds
   no descriptor of it *)
UpstreamReleased == relay.usConn \in { "none", "closed" } /\ ~relay.usDup

(* the items 0 (head), 1, ..., n *)
HeadAndChunks(n) == [i \in 1..(n + 1) |-> i - 1]

(* a is an initial part of b *)
IsPrefix(a, b) == Len(a) <= Len(b) /\ a = SubSeq(b, 1, Len(a))

(* C21: once the client has disconnected while its request is being
   handled, the upstream connection of the request is closed, whether or
   not the upstream sends anything more. *)
C21_AbortReleasesUpstream ==
    (relay.client = "gone" /\ InHand) ~> (relay.usConn # "open")

(* C24: a handled request has dialled one new upstream connection and has
   taken none that another request used, and when its handler has returned,
   on whichever path, the proxy holds the upstream socket open no more. *)
C24_OneConnectionEach ==
    /\ InHand => (relay.dialled = 1 /\ ~relay.reused)
    /\ relay.pos = "returned" => (relay.dialled <= 1 /\ UpstreamReleased)

(* C25: relaying a plain response, proxy.go sends the client the head, then
   the body chunks in the upstream's order, none dropped or repeated; when
   it turns to read a further chunk, the client has every chunk read so
   far; and after a relay without error the client has the whole body the
   upstream ended. *)
C25_ChunkByChunk ==
    (impl = "go" /\ relay.kind = "plain") =>
        /\ IsPrefix(relay.got, HeadAndChunks(relay.nread))
        /\ (relay.pos = "copy-read" /\ relay.nread > 0) =>
              relay.got = HeadAndChunks(relay.nread)
        /\ (relay.pos = "returned" /\ relay.err = "none" /\ relay.client = "open") =>
              (relay.upEnded /\ relay.left = << >> /\ relay.got = HeadAndChunks(relay.nread))

(* proxy.go has relayed a body of MaxChunks chunks to its end *)
C25_Witness ==
    /\ impl = "go"
    /\ relay.pos = "returned"
    /\ relay.err = "none"
    /\ relay.got = HeadAndChunks(MaxChunks)
====
